---- MODULE Spec2Model ----
(***************************************************************************)
(* A model of Bio/SearchIO/_objects.py: the QueryResult / Hit / HSP        *)
(* object hierarchy of Bio.SearchIO (Python 2 code path).                  *)
(*                                                                         *)
(* Objects live in heaps indexed by references (strings): `hits` maps a    *)
(* Hit reference to the Hit's instance attributes, `hsps` maps an HSP      *)
(* reference to the HSP's identifiers.  A QueryResult is a record whose    *)
(* field `hits` is the OrderedDict _hits, a sequence of [key, val]         *)
(* entries in insertion order, val being a Hit reference.                  *)
(*                                                                         *)
(* Every method is a result operator (suffix Res) computing the method's   *)
(* outcome (the exception raised, or "ok"), its return value and the       *)
(* state it leaves behind, and an action applying it to the variables.     *)
(***************************************************************************)
EXTENDS Integers, Sequences, FiniteSets, TLC

VARIABLES
    hsps,      \* heap of HSP objects: reference -> [hit_id, query_id, score]
    hits,      \* heap of Hit objects: reference -> [id, query_id, hsps]
    qr,        \* the QueryResult under study
    q2,        \* the object a derived construction has just returned
    appended,  \* history: [on, set], the Hits that append() has stored in qr
               \* (recorded only where Init switches the history on)
    hspd,      \* the HSP whose statistics are studied: [d, wrote, got], its
               \* instance __dict__, the values last written and the values
               \* that reads computed and stored
    last       \* the call in progress: [op, arg, outcome, ret] once the method has
               \* run, Idle once its caller has taken the result

vars == <<hsps, hits, qr, q2, appended, hspd, last>>

---------------------------------------------------------------------------
(* Bounds and input domains *)

\* the longest QueryResult the model builds
MaxLen == 3

QIds == {"q1", "q2"}
HitIds == {"a", "b", "c"}
HitRefs == {"h1", "h2", "h3"}
HspRefs == {"p1", "p2", "p3"}
KeyFns == {"id", "rot"}
None == "None"
Dflt == "default"
NotStr == "#int"
NotHit == "#object"
NotHsp == "#object"

\* objects that a call creates live in the heaps under references of their
\* own: New for the object a constructor returns (the heap has no such
\* entry when the constructor raised), CopyNames[i] for the copy that
\* hit_map makes of the i-th Hit; they are unreachable, and leave the heap,
\* once the caller has let go of the call's result
New == "new"
CopyNames == << "c1", "c2", "c3", "c4" >>
CopyRefs == { CopyNames[i] : i \in 1 .. Len(CopyNames) }
TempRefs == {New} \cup CopyRefs
Put(heap, ref, obj) ==
    [x \in DOMAIN heap \cup {ref} |-> IF x = ref THEN obj ELSE heap[x]]
Remove(heap, ref) == [x \in DOMAIN heap \ {ref} |-> heap[x]]
Released(heap) == [x \in DOMAIN heap \ TempRefs |-> heap[x]]

IdxArgs == (0 - MaxLen - 1) .. MaxLen
SliceArgs == (0 - 1) .. (MaxLen + 1)

---------------------------------------------------------------------------
(* Python built-ins used by the code *)

\* list[i]: the 1-based position of index i in a list of length n, 0 for
\* an IndexError
PyIndex(n, i) ==
    IF i >= 0 /\ i < n THEN i + 1
    ELSE IF i < 0 /\ 0 - i <= n THEN n + i + 1
    ELSE 0

\* a slice bound as list[a:b] normalises it
PyBound(n, a) ==
    IF a < 0 THEN (IF a + n < 0 THEN 0 ELSE a + n)
    ELSE (IF a > n THEN n ELSE a)

\* list[a:b]
PySlice(s, a, b) ==
    LET lo == PyBound(Len(s), a)
        hi == PyBound(Len(s), b)
    IN  IF lo < hi THEN SubSeq(s, lo + 1, hi) ELSE << >>

\* list[::-1]
RECURSIVE PyReversed(_)
PyReversed(s) ==
    IF s = << >> THEN << >> ELSE Append(PyReversed(Tail(s)), Head(s))

\* del list[a:b]
PyDelSlice(s, a, b) ==
    LET lo == PyBound(Len(s), a)
        hi == PyBound(Len(s), b)
    IN  IF lo < hi THEN SubSeq(s, 1, lo) \o SubSeq(s, hi + 1, Len(s)) ELSE s

\* OrderedDict: a sequence of [key, val] entries in insertion order
ODKeys(od) == [i \in 1 .. Len(od) |-> od[i].key]
ODValues(od) == [i \in 1 .. Len(od) |-> od[i].val]
ODHas(od, k) == \E i \in 1 .. Len(od) : od[i].key = k
ODPos(od, k) == CHOOSE i \in 1 .. Len(od) : od[i].key = k
ODGet(od, k) == od[ODPos(od, k)].val
\* (mutant) an assignment that moves an existing key to the end
ODSet_MoveToEnd(od, k, v) ==
    Append(SelectSeq(od, LAMBDA e : e.key # k), [key |-> k, val |-> v])
\* od[k] = v: an existing key keeps its position
ODSet(od, k, v) ==
    IF ODHas(od, k) THEN [od EXCEPT ![ODPos(od, k)].val = v]
    ELSE Append(od, [key |-> k, val |-> v])
\* del od[k]
ODDel(od, k) == SelectSeq(od, LAMBDA e : e.key # k)

\* the order of string keys that sorted() uses on the model's identifiers
IdRank == [a |-> 1, b |-> 2, c |-> 3]

\* sorted(): stable insertion of entry x into a list of [k, v] entries
\* ordered by k
RECURSIVE InsertSorted(_, _)
InsertSorted(s, x) ==
    IF s = << >> THEN << x >>
    ELSE IF x.k < Head(s).k THEN << x >> \o s
    ELSE << Head(s) >> \o InsertSorted(Tail(s), x)

\* sorted() of a list of [k, v] entries by k; equal keys keep their order
RECURSIVE PySorted(_)
PySorted(s) ==
    IF s = << >> THEN << >>
    ELSE InsertSorted(PySorted(SubSeq(s, 1, Len(s) - 1)), s[Len(s)])

---------------------------------------------------------------------------
(* Hit: a list-like container of HSPs *)

\* an element of Hit._hsps: an HSP object, or a list object that
\* Hit.__setitem__ stored at an integer index
E(ref) == [tag |-> "hsp", ref |-> ref, items |-> << >>]
L(items) == [tag |-> "list", ref |-> None, items |-> items]
ERefs(refs) == [i \in 1 .. Len(refs) |-> E(refs[i])]

\* isinstance(x, HSP)
IsHSP(x) == x \in HspRefs

\* Hit._validate_hsp: the exception it raises, or "ok"
ValidateHsp(hit, x, P) ==
    IF ~IsHSP(x) THEN "TypeError"
    ELSE IF P[x].hit_id # hit.id THEN "ValueError"
    ELSE IF P[x].query_id # hit.query_id THEN "ValueError"
    ELSE "ok"

\* (mutant) a validation loop that looks at the first value only
ValidateAll_FirstOnly(hit, xs, P) ==
    IF xs = << >> THEN "ok" ELSE ValidateHsp(hit, Head(xs), P)


\* the validation loop over a list of values: the first exception, or "ok"
RECURSIVE ValidateAll(_, _, _)
ValidateAll(hit, xs, P) ==
    IF xs = << >> THEN "ok"
    ELSE IF ValidateHsp(hit, Head(xs), P) # "ok"
         THEN ValidateHsp(hit, Head(xs), P)
    ELSE ValidateAll(hit, Tail(xs), P)

\* Hit.__init__(id, query_id, hsps)
HitNew(id, query_id, xs, P) ==
    IF id = None \/ query_id = None
    THEN [err |-> "ValueError", hit |-> [id |-> None, query_id |-> None, hsps |-> << >>]]
    ELSE LET shell == [id |-> id, query_id |-> query_id, hsps |-> << >>]
             v == ValidateAll(shell, xs, P)
         IN  IF v # "ok" THEN [err |-> v, hit |-> shell]
             ELSE [err |-> "ok", hit |-> [shell EXCEPT !.hsps = ERefs(xs)]]

\* HSP.__init__(hit_id, query_id): the identifiers are required; score
\* stands for the statistics a parser sets afterwards
HspNew(hit_id, query_id) ==
    IF hit_id = None \/ query_id = None
    THEN [err |-> "ValueError", hsp |-> [hit_id |-> None, query_id |-> None, score |-> 0]]
    ELSE [err |-> "ok", hsp |-> [hit_id |-> hit_id, query_id |-> query_id, score |-> 0]]


\* the loop `for hsp in self.hsps: hsp.<field> = value`; assigning to an
\* element that is a list object raises AttributeError and ends the loop
RECURSIVE CascadeHsps(_, _, _, _)
CascadeHsps(P, elems, field, value) ==
    IF elems = << >> THEN [err |-> "ok", hsps |-> P]
    ELSE IF Head(elems).tag # "hsp" THEN [err |-> "AttributeError", hsps |-> P]
    ELSE CascadeHsps([P EXCEPT ![Head(elems).ref][field] = value],
                     Tail(elems), field, value)

\* Hit._id_set
HitIdSetRes(H, P, h, value) ==
    LET c == CascadeHsps(P, H[h].hsps, "hit_id", value)
    IN  [err |-> c.err, hits |-> [H EXCEPT ![h].id = value], hsps |-> c.hsps]

\* Hit._query_id_set
HitQueryIdSetRes(H, P, h, value) ==
    LET c == CascadeHsps(P, H[h].hsps, "query_id", value)
    IN  [err |-> c.err, hits |-> [H EXCEPT ![h].query_id = value], hsps |-> c.hsps]

\* Hit.append
HitAppendRes(hit, x, P) ==
    LET v == ValidateHsp(hit, x, P)
    IN  IF v # "ok" THEN [err |-> v, hit |-> hit]
        ELSE [err |-> "ok", hit |-> [hit EXCEPT !.hsps = Append(@, E(x))]]

\* Hit.__setitem__(idx, hsps) with an integer idx; isList tells whether the
\* value is a list/tuple (xs) or a single object (xs[1])
HitSetItemIntRes(hit, i, isList, xs, P) ==
    LET v == IF isList THEN ValidateAll(hit, xs, P) ELSE ValidateHsp(hit, xs[1], P)
        pos == PyIndex(Len(hit.hsps), i)
    IN  IF v # "ok" THEN [err |-> v, hit |-> hit]
        ELSE IF pos = 0 THEN [err |-> "IndexError", hit |-> hit]
        ELSE [err |-> "ok",
              hit |-> [hit EXCEPT !.hsps[pos] = IF isList THEN L(xs) ELSE E(xs[1])]]

\* Hit.__setitem__(idx, hsps) with a slice a:b; a single HSP is not iterable
HitSetItemSliceRes(hit, a, b, isList, xs, P) ==
    LET v == IF isList THEN ValidateAll(hit, xs, P) ELSE ValidateHsp(hit, xs[1], P)
        n == Len(hit.hsps)
        lo == PyBound(n, a)
        hi == IF PyBound(n, b) < lo THEN lo ELSE PyBound(n, b)
    IN  IF v # "ok" THEN [err |-> v, hit |-> hit]
        ELSE IF ~isList THEN [err |-> "TypeError", hit |-> hit]
        ELSE [err |-> "ok",
              hit |-> [hit EXCEPT !.hsps = SubSeq(@, 1, lo) \o ERefs(xs)
                                            \o SubSeq(@, hi + 1, n)]]

\* BaseSearchObject._transfer_attrs for a Hit: every entry of src.__dict__
\* but _hsps is set on obj (a Hit record is a function of its field names)
HitTransferAttrs(src, obj) ==
    [f \in DOMAIN src \cup DOMAIN obj |->
        IF f \in DOMAIN src \ {"hsps"} THEN src[f] ELSE obj[f]]

\* the derived constructions of Hit: self.__class__(self.id, self.query_id,
\* hsps) over the selected elements, the same HSP objects (a list object
\* among them is not an HSP), followed by self._transfer_attrs(obj)
HitDerive(hit, es, P) ==
    LET xs == [i \in 1 .. Len(es) |-> IF es[i].tag = "hsp" THEN es[i].ref ELSE NotHsp]
        r == HitNew(hit.id, hit.query_id, xs, P)
    IN  IF r.err # "ok" THEN r ELSE [err |-> "ok", hit |-> HitTransferAttrs(hit, r.hit)]

\* Hit.__getitem__ with a slice a:b
HitGetSliceRes(hit, a, b, P) == HitDerive(hit, PySlice(hit.hsps, a, b), P)

\* Hit.__reversed__
HitReversedRes(hit, P) == HitDerive(hit, PyReversed(hit.hsps), P)

\* Hit.filter(func): useFunc tells whether func is a predicate on HSPs (it
\* holds of the HSPs in keep, and raises AttributeError on a list object)
\* or None, which keeps the elements that are true; an empty selection
\* returns None (none) instead of a Hit
HitFilterRes(hit, useFunc, keep, P) ==
    LET es == SelectSeq(hit.hsps,
                        LAMBDA e : IF useFunc THEN e.ref \in keep
                                   ELSE e.tag = "hsp" \/ e.items # << >>)
    IN  IF useFunc /\ \E i \in 1 .. Len(hit.hsps) : hit.hsps[i].tag # "hsp"
        THEN [err |-> "AttributeError", none |-> FALSE, hit |-> hit]
        ELSE IF es = << >> THEN [err |-> "ok", none |-> TRUE, hit |-> hit]
        ELSE [err |-> HitDerive(hit, es, P).err, none |-> FALSE,
              hit |-> HitDerive(hit, es, P).hit]

\* Hit.map(func) for func None, under which map() hands each element on
\* (fn = None), or a function returning an object that is not an HSP;
\* an empty list returns None
HitMapRes(hit, fn, P) ==
    LET es == IF fn = None THEN hit.hsps
              ELSE [i \in 1 .. Len(hit.hsps) |-> L(<< >>)]
    IN  IF es = << >> THEN [err |-> "ok", none |-> TRUE, hit |-> hit]
        ELSE [err |-> HitDerive(hit, es, P).err, none |-> FALSE,
              hit |-> HitDerive(hit, es, P).hit]


\* Hit.__delitem__ with an integer
HitDelItemIntRes(hit, i) ==
    LET pos == PyIndex(Len(hit.hsps), i)
    IN  IF pos = 0 THEN [err |-> "IndexError", hit |-> hit]
        ELSE [err |-> "ok",
              hit |-> [hit EXCEPT !.hsps = SubSeq(@, 1, pos - 1)
                                            \o SubSeq(@, pos + 1, Len(@))]]

\* Hit.__delitem__ with a slice
HitDelItemSliceRes(hit, a, b) ==
    [err |-> "ok", hit |-> [hit EXCEPT !.hsps = PyDelSlice(@, a, b)]]

\* Hit.pop(index)
HitPopRes(hit, i) ==
    LET pos == PyIndex(Len(hit.hsps), i)
    IN  IF pos = 0 THEN [err |-> "IndexError", ret |-> E(None), hit |-> hit]
        ELSE [err |-> "ok", ret |-> hit.hsps[pos],
              hit |-> [hit EXCEPT !.hsps = SubSeq(@, 1, pos - 1)
                                            \o SubSeq(@, pos + 1, Len(@))]]

\* Hit.reverse
HitReverseRes(hit) == [err |-> "ok", hit |-> [hit EXCEPT !.hsps = PyReversed(@)]]

\* list.sort(key=..., reverse=...) on the HSP list with a key function
\* reading hsp.score; a list-object element has no score: AttributeError,
\* the list stays as it was
HitSortKeyedRes(hit, reverse, P) ==
    IF \E i \in 1 .. Len(hit.hsps) : hit.hsps[i].tag # "hsp"
    THEN [err |-> "AttributeError", hit |-> hit]
    ELSE LET dec == [i \in 1 .. Len(hit.hsps) |->
                        [k |-> IF reverse THEN 0 - P[hit.hsps[i].ref].score
                               ELSE P[hit.hsps[i].ref].score,
                         v |-> hit.hsps[i]]]
             srt == PySorted(dec)
         IN  [err |-> "ok",
              hit |-> [hit EXCEPT !.hsps = [i \in 1 .. Len(srt) |-> srt[i].v]]]

\* Hit.sort(key, reverse, in_place=False) with the same key function: a
\* new Hit over the sorted copy of the list
HitSortCopyRes(hit, reverse, P) ==
    LET r == HitSortKeyedRes(hit, reverse, P)
    IN  IF r.err # "ok" THEN r ELSE HitDerive(hit, r.hit.hsps, P)

\* list.sort() without a key orders the objects by Python 2's default
\* comparison (their addresses): every ordering of the elements is possible
HitSortDefaultOrders(hit) ==
    { [i \in 1 .. Len(hit.hsps) |-> hit.hsps[f[i]]] :
        f \in Permutations(1 .. Len(hit.hsps)) }

---------------------------------------------------------------------------
(* HSP: the alignment statistics *)

\* an object's __dict__ is a function from attribute names to values;
\* hasattr, and setattr of a plain attribute
HasAttr(d, name) == name \in DOMAIN d
SetAttr(d, name, value) ==
    [n \in DOMAIN d \cup {name} |-> IF n = name THEN value ELSE d[n]]

\* (mutant) _ali_len_get that computes the sum without storing it
AliLenGet_NoCache(d) ==
    IF HasAttr(d, "_ali_len") THEN [err |-> "ok", ret |-> d["_ali_len"], d |-> d]
    ELSE IF ~HasAttr(d, "_ident_num") \/ ~HasAttr(d, "_mismatch_num")
            \/ ~HasAttr(d, "_gap_num")
         THEN [err |-> "AttributeError", ret |-> None, d |-> d]
    ELSE [err |-> "ok", ret |-> d["_ident_num"] + d["_mismatch_num"] + d["_gap_num"],
          d |-> d]

\* HSP._ali_len_get
AliLenGet(d) ==
    IF HasAttr(d, "_ali_len") THEN [err |-> "ok", ret |-> d["_ali_len"], d |-> d]
    ELSE IF ~HasAttr(d, "_ident_num") \/ ~HasAttr(d, "_mismatch_num")
            \/ ~HasAttr(d, "_gap_num")
         THEN [err |-> "AttributeError", ret |-> None, d |-> d]
    ELSE LET v == d["_ident_num"] + d["_mismatch_num"] + d["_gap_num"]
         IN  [err |-> "ok", ret |-> v, d |-> SetAttr(d, "_ali_len", v)]

\* (mutant) _ident_num_get that falls back to 0
IdentNumGet_DefaultZero(d) ==
    IF HasAttr(d, "_ident_num") THEN [err |-> "ok", ret |-> d["_ident_num"], d |-> d]
    ELSE IF ~HasAttr(d, "_ali_len") \/ ~HasAttr(d, "_mismatch_num")
            \/ ~HasAttr(d, "_gap_num")
         THEN [err |-> "ok", ret |-> 0, d |-> d]
    ELSE [err |-> "ok", ret |-> d["_ali_len"] - d["_mismatch_num"] - d["_gap_num"],
          d |-> SetAttr(d, "_ident_num", d["_ali_len"] - d["_mismatch_num"] - d["_gap_num"])]

\* HSP._ident_num_get
IdentNumGet(d) ==
    IF HasAttr(d, "_ident_num") THEN [err |-> "ok", ret |-> d["_ident_num"], d |-> d]
    ELSE IF ~HasAttr(d, "_ali_len") \/ ~HasAttr(d, "_mismatch_num")
            \/ ~HasAttr(d, "_gap_num")
         THEN [err |-> "AttributeError", ret |-> None, d |-> d]
    ELSE LET v == d["_ali_len"] - d["_mismatch_num"] - d["_gap_num"]
         IN  [err |-> "ok", ret |-> v, d |-> SetAttr(d, "_ident_num", v)]

\* HSP._mismatch_num_get
MismatchNumGet(d) ==
    IF HasAttr(d, "_mismatch_num")
    THEN [err |-> "ok", ret |-> d["_mismatch_num"], d |-> d]
    ELSE IF ~HasAttr(d, "_ali_len") \/ ~HasAttr(d, "_ident_num")
            \/ ~HasAttr(d, "_gap_num")
         THEN [err |-> "AttributeError", ret |-> None, d |-> d]
    ELSE LET v == d["_ali_len"] - d["_ident_num"] - d["_gap_num"]
         IN  [err |-> "ok", ret |-> v, d |-> SetAttr(d, "_mismatch_num", v)]

\* (mutant) _gap_num_get that leaves the mismatches out of the difference
GapNumGet_NoMismatch(d) ==
    IF HasAttr(d, "_gap_num") THEN [err |-> "ok", ret |-> d["_gap_num"], d |-> d]
    ELSE IF ~HasAttr(d, "_ali_len") \/ ~HasAttr(d, "_ident_num")
            \/ ~HasAttr(d, "_mismatch_num")
         THEN [err |-> "AttributeError", ret |-> None, d |-> d]
    ELSE LET v == d["_ali_len"] - d["_ident_num"]
         IN  [err |-> "ok", ret |-> v, d |-> SetAttr(d, "_gap_num", v)]

\* HSP._gap_num_get
GapNumGet(d) ==
    IF HasAttr(d, "_gap_num") THEN [err |-> "ok", ret |-> d["_gap_num"], d |-> d]
    ELSE IF ~HasAttr(d, "_ali_len") \/ ~HasAttr(d, "_ident_num")
            \/ ~HasAttr(d, "_mismatch_num")
         THEN [err |-> "AttributeError", ret |-> None, d |-> d]
    ELSE LET v == d["_ali_len"] - d["_ident_num"] - d["_mismatch_num"]
         IN  [err |-> "ok", ret |-> v, d |-> SetAttr(d, "_gap_num", v)]

\* len(re.findall(_RE_GAPOPEN, s)) for the pattern \w- : the positions
\* where a word character is followed by a dash (two such matches never
\* overlap)
WordChars == {"A", "C"}
GapOpens(s) ==
    Cardinality({ i \in 1 .. Len(s) - 1 : s[i] \in WordChars /\ s[i + 1] = "-" })

\* the value of the attribute `query` or `hit`: a SeqRecord with its
\* sequence (ContiguousHSP), or a list of SeqRecords (SegmentedHSP), which
\* has no attribute `seq`
SeqRecord(s) == [kind |-> "SeqRecord", seq |-> s]
BlockList == [kind |-> "list", seq |-> << >>]

\* HSP._gapopen_num_get
GapopenNumGet(d) ==
    IF HasAttr(d, "_gapopen_num")
    THEN [err |-> "ok", ret |-> d["_gapopen_num"], d |-> d]
    ELSE IF ~HasAttr(d, "query") THEN [err |-> "AttributeError", ret |-> None, d |-> d]
    ELSE IF d["query"].kind # "SeqRecord"
         THEN [err |-> "AttributeError", ret |-> None, d |-> d]
    ELSE IF ~HasAttr(d, "hit") THEN [err |-> "AttributeError", ret |-> None, d |-> d]
    ELSE IF d["hit"].kind # "SeqRecord"
         THEN [err |-> "AttributeError", ret |-> None, d |-> d]
    ELSE LET v == GapOpens(d["query"].seq) + GapOpens(d["hit"].seq)
         IN  [err |-> "ok", ret |-> v, d |-> SetAttr(d, "_gapopen_num", v)]

\* count / float(ali_len) * 100 as the exact fraction << numerator,
\* denominator >> in lowest terms (ali_len > 0); the float result is a
\* function of this fraction
RECURSIVE Gcd(_, _)
Gcd(a, b) == IF b = 0 THEN a ELSE Gcd(b, a % b)
Abs(x) == IF x < 0 THEN 0 - x ELSE x
Frac(n, m) == << n \div Gcd(Abs(n), m), m \div Gcd(Abs(n), m) >>
Percent(count, len) == Frac(count * 100, len)

\* reading the plain attribute pos_num
PosNumGet(d) ==
    IF HasAttr(d, "pos_num") THEN [err |-> "ok", ret |-> d["pos_num"], d |-> d]
    ELSE [err |-> "AttributeError", ret |-> None, d |-> d]

\* the body of the three percentage getters: `self.<count> /
\* float(self.ali_len) * 100` with the count read first (c), then ali_len;
\* a division by 0.0 raises ZeroDivisionError, which the getter does not
\* catch
PctGet(d, name, c) ==
    IF HasAttr(d, name) THEN [err |-> "ok", ret |-> d[name], d |-> d]
    ELSE IF c.err # "ok" THEN [err |-> "AttributeError", ret |-> None, d |-> c.d]
    ELSE LET a == AliLenGet(c.d)
         IN  IF a.err # "ok" THEN [err |-> "AttributeError", ret |-> None, d |-> a.d]
             ELSE IF a.ret = 0
                  THEN [err |-> "ZeroDivisionError", ret |-> None, d |-> a.d]
             ELSE [err |-> "ok", ret |-> Percent(c.ret, a.ret),
                   d |-> SetAttr(a.d, name, Percent(c.ret, a.ret))]

\* HSP._ident_pct_get, HSP._pos_pct_get, HSP._gap_pct_get
IdentPctGet(d) == PctGet(d, "_ident_pct", IdentNumGet(d))
PosPctGet(d) == PctGet(d, "_pos_pct", PosNumGet(d))
GapPctGet(d) == PctGet(d, "_gap_pct", GapNumGet(d))

\* the properties and the attribute each one is stored in
CountFields == {"ali_len", "ident_num", "mismatch_num", "gap_num"}
PctFields == {"ident_pct", "pos_pct", "gap_pct"}
Private ==
    [ali_len |-> "_ali_len", ident_num |-> "_ident_num",
     mismatch_num |-> "_mismatch_num", gap_num |-> "_gap_num",
     gapopen_num |-> "_gapopen_num", ident_pct |-> "_ident_pct",
     pos_pct |-> "_pos_pct", gap_pct |-> "_gap_pct", pos_num |-> "pos_num"]

\* hsp.<f>: the getter of the property f
HspGet(d, f) ==
    CASE f = "ali_len" -> AliLenGet(d)
      [] f = "ident_num" -> IdentNumGet(d)
      [] f = "mismatch_num" -> MismatchNumGet(d)
      [] f = "gap_num" -> GapNumGet(d)
      [] f = "gapopen_num" -> GapopenNumGet(d)
      [] f = "ident_pct" -> IdentPctGet(d)
      [] f = "pos_pct" -> PosPctGet(d)
      [] f = "gap_pct" -> GapPctGet(d)
      [] f = "pos_num" -> PosNumGet(d)

\* (mutant) a setter that keeps a value the attribute already holds
HspSet_KeepExisting(d, f, value) ==
    IF HasAttr(d, Private[f]) THEN d ELSE SetAttr(d, Private[f], value)

\* hsp.<f> = value: each setter stores the value in its attribute
HspSet(d, f, value) == SetAttr(d, Private[f], value)

---------------------------------------------------------------------------
(* QueryResult: an ordered, keyed container of Hits *)

\* the hit_key_function: the default `lambda hit: hit.id`, or a custom
\* function of the hit ("rot": a fixed renaming of the hit's id)
RotKey == [a |-> "b", b |-> "c", c |-> "a"]
HitKeyOf(hkf, hit) == IF hkf = "id" THEN hit.id ELSE RotKey[hit.id]

\* isinstance(hit_key, basestring), isinstance(hit, Hit)
IsString(k) == k \in HitIds
IsHit(x) == x \in HitRefs \cup CopyRefs

\* the attributes QueryResult.__init__ sets besides _id, _hit_key_function
\* and _hits
DefaultAttrs ==
    [n \in {"program", "target", "version", "_desc"} |->
        IF n = "_desc" THEN "" ELSE "<unknown>"]

\* (mutant) item assignment without the comparison of query ids
QSetItemRes_NoQueryIdCheck(q, k, x, H) ==
    IF ~IsString(k) THEN [err |-> "TypeError", q |-> q]
    ELSE IF ~IsHit(x) THEN [err |-> "TypeError", q |-> q]
    ELSE [err |-> "ok", q |-> [q EXCEPT !.hits = ODSet(@, k, x)]]


\* QueryResult.__setitem__
QSetItemRes(q, k, x, H) ==
    IF ~IsString(k) THEN [err |-> "TypeError", q |-> q]
    ELSE IF ~IsHit(x) THEN [err |-> "TypeError", q |-> q]
    ELSE IF H[x].query_id # q.id THEN [err |-> "ValueError", q |-> q]
    ELSE [err |-> "ok", q |-> [q EXCEPT !.hits = ODSet(@, k, x)]]

\* (mutant) append without the test for a key already present
QAppendRes_Overwrite(q, x, H) == QSetItemRes(q, HitKeyOf(q.hkf, H[x]), x, H)

\* QueryResult.append
QAppendRes(q, x, H) ==
    LET k == HitKeyOf(q.hkf, H[x])
    IN  IF ~ODHas(q.hits, k) THEN QSetItemRes(q, k, x, H)
        ELSE [err |-> "ValueError", q |-> q]

\* the loop of QueryResult.__init__: `for hit in hits: self.append(hit)`
RECURSIVE QFill(_, _, _)
QFill(q, xs, H) ==
    IF xs = << >> THEN [err |-> "ok", q |-> q]
    ELSE LET r == QAppendRes(q, Head(xs), H)
         IN  IF r.err # "ok" THEN r ELSE QFill(r.q, Tail(xs), H)

\* (mutant) a constructor that accepts a null id
QNew_NullId(id, xs, hkf, H) ==
    QFill([id |-> id, hkf |-> hkf, hits |-> << >>, attrs |-> DefaultAttrs], xs, H)


\* QueryResult.__init__(id, hits, hit_key_function)
QNew(id, xs, hkf, H) ==
    IF id = None
    THEN [err |-> "ValueError",
          q |-> [id |-> None, hkf |-> hkf, hits |-> << >>, attrs |-> DefaultAttrs]]
    ELSE QFill([id |-> id, hkf |-> hkf, hits |-> << >>, attrs |-> DefaultAttrs],
               xs, H)

\* BaseSearchObject._transfer_attrs for a QueryResult: every entry of
\* src.__dict__ but _hits is set on obj
QTransferAttrs(src, obj) ==
    [obj EXCEPT !.id = src.id, !.hkf = src.hkf,
                !.attrs = [n \in DOMAIN src.attrs \cup DOMAIN obj.attrs |->
                            IF n \in DOMAIN src.attrs THEN src.attrs[n]
                            ELSE obj.attrs[n]]]

\* the derived constructions: self.__class__(self.id, hits,
\* self._hit_key_function) followed by self._transfer_attrs(obj)
QDerive(q, xs, H) ==
    LET r == QNew(q.id, xs, q.hkf, H)
    IN  IF r.err # "ok" THEN r ELSE [err |-> "ok", q |-> QTransferAttrs(q, r.q)]

\* QueryResult.__getitem__ with a slice
QGetSliceRes(q, a, b, H) == QDerive(q, PySlice(ODValues(q.hits), a, b), H)

\* QueryResult.__getitem__ with an integer
QGetIntRes(q, i) ==
    LET pos == PyIndex(Len(q.hits), i)
    IN  IF pos = 0 THEN [err |-> "IndexError", ret |-> None]
        ELSE [err |-> "ok", ret |-> ODValues(q.hits)[pos]]

\* QueryResult.__getitem__ with a string key
QGetKeyRes(q, k) ==
    IF ODHas(q.hits, k) THEN [err |-> "ok", ret |-> ODGet(q.hits, k)]
    ELSE [err |-> "KeyError", ret |-> None]

\* the loop of QueryResult.__delitem__: `for key in hit_keys: del self._hits[key]`
RECURSIVE QDelKeys(_, _)
QDelKeys(q, ks) ==
    IF ks = << >> THEN [err |-> "ok", q |-> q]
    ELSE IF ~ODHas(q.hits, Head(ks)) THEN [err |-> "KeyError", q |-> q]
    ELSE QDelKeys([q EXCEPT !.hits = ODDel(@, Head(ks))], Tail(ks))

\* (mutant) slice deletion that takes the end of the slice as included
QDelSliceRes_Inclusive(q, a, b) == QDelKeys(q, PySlice(ODKeys(q.hits), a, b + 1))


\* QueryResult.__delitem__ with an integer, a slice, a key
QDelIntRes(q, i) ==
    LET pos == PyIndex(Len(q.hits), i)
    IN  IF pos = 0 THEN [err |-> "IndexError", q |-> q]
        ELSE QDelKeys(q, << ODKeys(q.hits)[pos] >>)
QDelSliceRes(q, a, b) == QDelKeys(q, PySlice(ODKeys(q.hits), a, b))
QDelKeyRes(q, k) == QDelKeys(q, << k >>)

\* (mutant) pop that counts every integer index from the front
QPopRes_FromFront(q, isInt, i, k, hasDefault) ==
    LET pos == IF i >= 0 /\ i < Len(q.hits) THEN i + 1
               ELSE IF i < 0 /\ 0 - i <= Len(q.hits) THEN 0 - i ELSE 0
        key == IF isInt THEN ODKeys(q.hits)[pos] ELSE k
    IN  IF isInt /\ Len(q.hits) = 0 THEN [err |-> "IndexError", ret |-> None, q |-> q]
        ELSE IF isInt /\ pos = 0 THEN [err |-> "IndexError", ret |-> None, q |-> q]
        ELSE IF ODHas(q.hits, key)
             THEN [err |-> "ok", ret |-> ODGet(q.hits, key),
                   q |-> [q EXCEPT !.hits = ODDel(@, key)]]
        ELSE IF ~hasDefault THEN [err |-> "KeyError", ret |-> None, q |-> q]
        ELSE [err |-> "ok", ret |-> Dflt, q |-> q]

\* QueryResult.pop(hit_key, default); isInt: hit_key is an integer i,
\* otherwise the key k; hasDefault: a default was passed (it is Dflt)
QPopRes(q, isInt, i, k, hasDefault) ==
    LET pos == PyIndex(Len(q.hits), i)
        key == IF isInt THEN ODKeys(q.hits)[pos] ELSE k
    IN  IF isInt /\ Len(q.hits) = 0 THEN [err |-> "IndexError", ret |-> None, q |-> q]
        ELSE IF isInt /\ pos = 0 THEN [err |-> "IndexError", ret |-> None, q |-> q]
        ELSE IF ODHas(q.hits, key)
             THEN [err |-> "ok", ret |-> ODGet(q.hits, key),
                   q |-> [q EXCEPT !.hits = ODDel(@, key)]]
        ELSE IF ~hasDefault THEN [err |-> "KeyError", ret |-> None, q |-> q]
        ELSE [err |-> "ok", ret |-> Dflt, q |-> q]

\* the loop of QueryResult._id_set: `for hit in self.hits: hit.query_id = value`
RECURSIVE QCascade(_, _, _, _)
QCascade(H, P, xs, value) ==
    IF xs = << >> THEN [err |-> "ok", hits |-> H, hsps |-> P]
    ELSE LET r == HitQueryIdSetRes(H, P, Head(xs), value)
         IN  IF r.err # "ok" THEN r ELSE QCascade(r.hits, r.hsps, Tail(xs), value)

\* QueryResult._id_set
QIdSetRes(q, H, P, value) ==
    LET c == QCascade(H, P, ODValues(q.hits), value)
    IN  [err |-> c.err, q |-> [q EXCEPT !.id = value], hits |-> c.hits, hsps |-> c.hsps]

\* QueryResult.sort: the list sorted_hits; byId: key=lambda hit: hit.id,
\* otherwise key=None
QSortedHits(q, byId, reverse, H) ==
    LET xs == ODValues(q.hits)
        dec == [i \in 1 .. Len(xs) |->
                   [k |-> IF reverse THEN 0 - IdRank[H[xs[i]].id] ELSE IdRank[H[xs[i]].id],
                    v |-> xs[i]]]
        srt == PySorted(dec)
    IN  IF byId THEN [i \in 1 .. Len(srt) |-> srt[i].v]
        ELSE IF reverse THEN PyReversed(xs)
        ELSE xs

\* the in-place branch of QueryResult.sort: `new_hits[key_fn(hit)] = hit`
RECURSIVE QRekey(_, _, _, _)
QRekey(od, xs, hkf, H) ==
    IF xs = << >> THEN od
    ELSE QRekey(ODSet(od, HitKeyOf(hkf, H[Head(xs)]), Head(xs)), Tail(xs), hkf, H)

\* QueryResult.sort(key, reverse, in_place=True)
QSortInPlaceRes(q, byId, reverse, H) ==
    [err |-> "ok",
     q |-> [q EXCEPT !.hits = QRekey(<< >>, QSortedHits(q, byId, reverse, H), q.hkf, H)]]

\* QueryResult.sort(key, reverse, in_place=False)
QSortCopyRes(q, byId, reverse, H) == QDerive(q, QSortedHits(q, byId, reverse, H), H)

\* setattr(qresult, name, value) for a plain attribute
QSetAttrRes(q, name, value) ==
    [q EXCEPT !.attrs = [n \in DOMAIN q.attrs \cup {name} |->
                            IF n = name THEN value ELSE q.attrs[n]]]

\* (mutant) index counting positions from one
QIndexRes_OneBased(q, x, H) ==
    LET k == IF IsHit(x) THEN H[x].id ELSE x
    IN  IF ODHas(q.hits, k) THEN [err |-> "ok", ret |-> ODPos(q.hits, k)]
        ELSE [err |-> "ok", ret |-> 0 - 1]

\* QueryResult.index(hit_key): a Hit argument is looked up by its id;
\* list.index raises ValueError for an absent value, which is caught
QIndexRes(q, x, H) ==
    LET k == IF IsHit(x) THEN H[x].id ELSE x
    IN  IF ODHas(q.hits, k) THEN [err |-> "ok", ret |-> ODPos(q.hits, k) - 1]
        ELSE [err |-> "ok", ret |-> 0 - 1]

\* Hit.__nonzero__: bool(self._hsps)
HitNonzero(hit) == hit.hsps # << >>

\* filter(func, self.hits): useFunc tells whether func is a predicate (it
\* holds of the Hits in keep) or None, which keeps the Hits that are true
PyFilterHits(xs, useFunc, keep, H) ==
    SelectSeq(xs, LAMBDA h : IF useFunc THEN h \in keep ELSE HitNonzero(H[h]))

\* QueryResult.hit_filter(func)
QHitFilterRes(q, useFunc, keep, H) ==
    QDerive(q, PyFilterHits(ODValues(q.hits), useFunc, keep, H), H)

\* QueryResult.__reversed__
QReversedRes(q, H) == QDerive(q, PyReversed(ODValues(q.hits)), H)


---------------------------------------------------------------------------
(* The QueryResult specification: one QueryResult over a pool of Hits *)

\* the pool: Hit h1 owns the HSPs p1 and p2, h2 owns p3, h3 owns none
PoolHsps == [h1 |-> << "p1", "p2" >>, h2 |-> << "p3" >>, h3 |-> << >>]
PoolOwner == [p1 |-> "h1", p2 |-> "h1", p3 |-> "h2"]
PoolIds == [h1 |-> "a", h2 |-> "b", h3 |-> "c"]
PoolScore == [p1 |-> 2, p2 |-> 1, p3 |-> 2]

AttrNames == {"program", "seq_len"}
AttrVals == {"blastn"}

NoObj == [id |-> None, hkf |-> "id", hits |-> << >>, attrs |-> DefaultAttrs]
FreshHsp == [d |-> << >>, wrote |-> << >>, got |-> << >>]
InitLists == UNION { [1 .. n -> HitRefs] : n \in 0 .. MaxLen }

\* calls are synchronous and single-threaded: a method starts when no call
\* is in progress, and its caller takes the outcome before the next call
\* (arg: the Hit or key argument of the call, None for the other calls;
\* ret: << value >> when the call returned a value, << >> when it returned
\* nothing or raised)
Returns(r) == IF r.err = "ok" THEN << r.ret >> ELSE << >>
Idle == [op |-> "idle", arg |-> None, outcome |-> "ok", ret |-> << >>]
Done(op, arg, outcome, ret) ==
    last' = [op |-> op, arg |-> arg, outcome |-> outcome, ret |-> ret]

\* the pool's Hits are built by Hit(id, query_id, hsps) from matching HSPs
InitPool(pool) ==
    \E qids \in [pool -> QIds] :
       /\ hsps = [p \in HspRefs |->
                    [hit_id |-> PoolIds[PoolOwner[p]],
                     query_id |-> IF PoolOwner[p] \in pool THEN qids[PoolOwner[p]] ELSE "q1",
                     score |-> PoolScore[p]]]
       /\ hits = [h \in pool |-> HitNew(PoolIds[h], qids[h], PoolHsps[h], hsps).hit]
       /\ \A h \in pool : HitNew(PoolIds[h], qids[h], PoolHsps[h], hsps).err = "ok"

\* the QueryResult is built by QueryResult(id, hits, hit_key_function) from
\* a list of the pool's Hits
InitQuery(fns, history) ==
    /\ \E id \in QIds, hkf \in fns, xs \in InitLists :
         /\ \A i \in 1 .. Len(xs) : xs[i] \in DOMAIN hits
         /\ QNew(id, xs, hkf, hits).err = "ok"
         /\ qr = QNew(id, xs, hkf, hits).q
         /\ appended = [on |-> history,
                        set |-> IF history THEN { xs[i] : i \in 1 .. Len(xs) } ELSE {}]
    /\ q2 = NoObj
    /\ hspd = FreshHsp
    /\ last = Idle

Init == InitPool(HitRefs) /\ InitQuery(KeyFns, FALSE)

QAppend(x) ==
    LET r == QAppendRes(qr, x, hits)
    IN  /\ last.op = "idle"
        /\ Len(r.q.hits) <= MaxLen
        /\ qr' = r.q
        /\ appended' = IF r.err = "ok" /\ appended.on
                       THEN [appended EXCEPT !.set = @ \cup {x}] ELSE appended
        /\ Done("append", x, r.err, << >>)
        /\ UNCHANGED << hsps, hits, q2, hspd >>

QSetItem(k, x) ==
    LET r == QSetItemRes(qr, k, x, hits)
    IN  /\ last.op = "idle"
        /\ Len(r.q.hits) <= MaxLen
        /\ qr' = r.q
        /\ Done("setitem", x, r.err, << >>)
        /\ UNCHANGED << hsps, hits, q2, appended, hspd >>

QDelInt(i) ==
    LET r == QDelIntRes(qr, i)
    IN  /\ last.op = "idle"
        /\ qr' = r.q
        /\ Done("delitem_int", None, r.err, << >>)
        /\ UNCHANGED << hsps, hits, q2, appended, hspd >>

QDelSlice(a, b) ==
    LET r == QDelSliceRes(qr, a, b)
    IN  /\ last.op = "idle"
        /\ qr' = r.q
        /\ Done("delitem_slice", None, r.err, << >>)
        /\ UNCHANGED << hsps, hits, q2, appended, hspd >>

QDelKey(k) ==
    LET r == QDelKeyRes(qr, k)
    IN  /\ last.op = "idle"
        /\ qr' = r.q
        /\ Done("delitem_key", k, r.err, << >>)
        /\ UNCHANGED << hsps, hits, q2, appended, hspd >>

QPopInt(i, hasDefault) ==
    LET r == QPopRes(qr, TRUE, i, None, hasDefault)
    IN  /\ last.op = "idle"
        /\ qr' = r.q
        /\ Done("pop_int", None, r.err, Returns(r))
        /\ UNCHANGED << hsps, hits, q2, appended, hspd >>

QPopKey(k, hasDefault) ==
    LET r == QPopRes(qr, FALSE, 0, k, hasDefault)
    IN  /\ last.op = "idle"
        /\ qr' = r.q
        /\ Done("pop_key", k, r.err, Returns(r))
        /\ UNCHANGED << hsps, hits, q2, appended, hspd >>

QIdSet(value) ==
    LET r == QIdSetRes(qr, hits, hsps, value)
    IN  /\ last.op = "idle"
        /\ qr' = r.q
        /\ hits' = r.hits
        /\ hsps' = r.hsps
        /\ Done("id_set", value, r.err, << >>)
        /\ UNCHANGED << q2, appended, hspd >>

HitIdSet(h, value) ==
    LET r == HitIdSetRes(hits, hsps, h, value)
    IN  /\ last.op = "idle"
        /\ hits' = r.hits
        /\ hsps' = r.hsps
        /\ Done("hit_id_set", h, r.err, << >>)
        /\ UNCHANGED << qr, q2, appended, hspd >>

QSortInPlace(byId, reverse) ==
    LET r == QSortInPlaceRes(qr, byId, reverse, hits)
    IN  /\ last.op = "idle"
        /\ qr' = r.q
        /\ Done("sort_in_place", None, r.err, << >>)
        /\ UNCHANGED << hsps, hits, q2, appended, hspd >>

QSortCopy(byId, reverse) ==
    LET r == QSortCopyRes(qr, byId, reverse, hits)
    IN  /\ last.op = "idle"
        /\ q2' = IF r.err = "ok" THEN r.q ELSE NoObj
        /\ Done("sort_copy", None, r.err, << >>)
        /\ UNCHANGED << hsps, hits, qr, appended, hspd >>

QGetInt(i) ==
    LET r == QGetIntRes(qr, i)
    IN  /\ last.op = "idle"
        /\ Done("getitem_int", None, r.err, Returns(r))
        /\ UNCHANGED << hsps, hits, qr, q2, appended, hspd >>

QGetKey(k) ==
    LET r == QGetKeyRes(qr, k)
    IN  /\ last.op = "idle"
        /\ Done("getitem_key", k, r.err, Returns(r))
        /\ UNCHANGED << hsps, hits, qr, q2, appended, hspd >>

QGetSlice(a, b) ==
    LET r == QGetSliceRes(qr, a, b, hits)
    IN  /\ last.op = "idle"
        /\ q2' = IF r.err = "ok" THEN r.q ELSE NoObj
        /\ Done("getitem_slice", None, r.err, << >>)
        /\ UNCHANGED << hsps, hits, qr, appended, hspd >>

QSetAttr(name, value) ==
    /\ last.op = "idle"
    /\ qr' = QSetAttrRes(qr, name, value)
    /\ Done("setattr", name, "ok", << >>)
    /\ UNCHANGED << hsps, hits, q2, appended, hspd >>

\* the caller takes the outcome and lets go of a returned object
Return ==
    /\ last.op # "idle"
    /\ last' = Idle
    /\ q2' = NoObj
    /\ hits' = Released(hits)
    /\ hsps' = Released(hsps)
    /\ UNCHANGED << qr, appended, hspd >>

Calls ==
    \/ Return
    \/ \E x \in DOMAIN hits : QAppend(x)
    \/ \E k \in HitIds \cup {NotStr}, x \in DOMAIN hits \cup {NotHit} : QSetItem(k, x)
    \/ \E i \in IdxArgs : QDelInt(i)
    \/ \E a \in SliceArgs, b \in SliceArgs : QDelSlice(a, b)
    \/ \E k \in HitIds : QDelKey(k)
    \/ \E i \in IdxArgs, d \in BOOLEAN : QPopInt(i, d)
    \/ \E k \in HitIds, d \in BOOLEAN : QPopKey(k, d)
    \/ \E v \in QIds : QIdSet(v)
    \/ \E byId \in BOOLEAN, reverse \in BOOLEAN : QSortInPlace(byId, reverse)
    \/ \E i \in IdxArgs : QGetInt(i)
    \/ \E k \in HitIds : QGetKey(k)
    \/ \E a \in SliceArgs, b \in SliceArgs : QGetSlice(a, b)
    \/ \E byId \in BOOLEAN, reverse \in BOOLEAN : QSortCopy(byId, reverse)

Next ==
    \/ Calls
    \/ \E n \in AttrNames, v \in AttrVals : QSetAttr(n, v)

Spec == Init /\ [][Next]_vars

\* the same QueryResult when its caller also reassigns the id of Hits: a
\* pool of two Hits, the default key function, the append history recorded
RenamePool == {"h1", "h2"}
InitRename == InitPool(RenamePool) /\ InitQuery({"id"}, TRUE)
NextRename ==
    \/ Calls
    \/ \E h \in DOMAIN hits, v \in HitIds : HitIdSet(h, v)
SpecRename == InitRename /\ [][NextRename]_vars

\* a Hit of the pool receives `hit[i] = value`
HitSetItemInt(h, i, isList, xs) ==
    LET r == HitSetItemIntRes(hits[h], i, isList, xs, hsps)
    IN  /\ last.op = "idle"
        /\ hits' = [hits EXCEPT ![h] = r.hit]
        /\ Done("hit_setitem_int", h, r.err, << >>)
        /\ UNCHANGED << hsps, qr, q2, appended, hspd >>

\* the values of q.hits include the Hit object h
Holds(q, h) == \E i \in 1 .. Len(q.hits) : q.hits[i].val = h

\* the same QueryResult when a Hit had a list of its HSPs assigned at its
\* first index before the QueryResult received it
NestArgs == { << p >> : p \in HspRefs }
NextNested ==
    \/ Return
    \/ \E x \in DOMAIN hits : QAppend(x)
    \/ \E i \in IdxArgs, d \in BOOLEAN : QPopInt(i, d)
    \/ \E v \in QIds : QIdSet(v)
    \/ \E h \in DOMAIN hits, xs \in NestArgs :
          ~Holds(qr, h) /\ HitSetItemInt(h, 0, TRUE, xs)
InitNested == InitPool(RenamePool) /\ InitQuery({"id"}, FALSE)
SpecNested == InitNested /\ [][NextNested]_vars

\* q.index(x)
QIndex(x) ==
    LET r == QIndexRes(qr, x, hits)
    IN  /\ last.op = "idle"
        /\ Done("index", x, r.err, Returns(r))
        /\ UNCHANGED << hsps, hits, qr, q2, appended, hspd >>

\* q.hit_filter(func)
QHitFilter(useFunc, keep) ==
    LET r == QHitFilterRes(qr, useFunc, keep, hits)
    IN  /\ last.op = "idle"
        /\ q2' = IF r.err = "ok" THEN r.q ELSE NoObj
        /\ Done("hit_filter", None, r.err, << >>)
        /\ UNCHANGED << hsps, hits, qr, appended, hspd >>

\* reversed(q)
QReversed ==
    LET r == QReversedRes(qr, hits)
    IN  /\ last.op = "idle"
        /\ q2' = IF r.err = "ok" THEN r.q ELSE NoObj
        /\ Done("reversed", None, r.err, << >>)
        /\ UNCHANGED << hsps, hits, qr, appended, hspd >>

\* the same QueryResult when its caller looks keys up and derives filtered
\* and reversed QueryResults from it; the predicates keep the Hits of a set
Predicates == { {}, {"h2"}, {"h1", "h3"}, HitRefs }
NextViews ==
    \/ Return
    \/ \E x \in DOMAIN hits : QAppend(x)
    \/ \E k \in HitIds \cup {NotStr}, x \in DOMAIN hits \cup {NotHit} : QSetItem(k, x)
    \/ \E k \in HitIds : QDelKey(k)
    \/ \E n \in AttrNames, v \in AttrVals : QSetAttr(n, v)
    \/ \E x \in HitIds \cup DOMAIN hits : QIndex(x)
    \/ \E keep \in Predicates : QHitFilter(TRUE, keep)
    \/ QHitFilter(FALSE, {})
    \/ QReversed
SpecViews == Init /\ [][NextViews]_vars


\* the functions given to hit_map: None, under which map() hands each Hit
\* on as it is, or `def fn(hit): hit.id = v; return hit` for an id v
MapFns == {None} \cup HitIds
ApplyFn(H, P, h, fn) ==
    IF fn = None THEN [err |-> "ok", hits |-> H, hsps |-> P]
    ELSE HitIdSetRes(H, P, h, fn)

\* map(func, (hit[:] for hit in self.hits)): from position i on, each Hit
\* is copied by hit[:] and the copy handed to func; out lists what func
\* returned
RECURSIVE QMapCopies(_, _, _, _, _, _)
QMapCopies(H, P, xs, i, fn, out) ==
    IF i > Len(xs) THEN [err |-> "ok", hits |-> H, hsps |-> P, out |-> out]
    ELSE LET c == HitGetSliceRes(H[xs[i]], 0, Len(H[xs[i]].hsps), P)
             f == ApplyFn(Put(H, CopyNames[i], c.hit), P, CopyNames[i], fn)
         IN  IF c.err # "ok" THEN [err |-> c.err, hits |-> H, hsps |-> P, out |-> out]
             ELSE IF f.err # "ok"
                  THEN [err |-> f.err, hits |-> f.hits, hsps |-> f.hsps, out |-> out]
             ELSE QMapCopies(f.hits, f.hsps, xs, i + 1, fn, Append(out, CopyNames[i]))

\* QueryResult.hit_map(func)
QHitMapRes(q, fn, H, P) ==
    LET m == QMapCopies(H, P, ODValues(q.hits), 1, fn, << >>)
        d == QDerive(q, m.out, m.hits)
    IN  IF m.err # "ok" THEN [err |-> m.err, q |-> NoObj, hits |-> m.hits, hsps |-> m.hsps]
        ELSE [err |-> d.err, q |-> IF d.err = "ok" THEN d.q ELSE NoObj,
              hits |-> m.hits, hsps |-> m.hsps]

\* q.hit_map(func)
QHitMap(fn) ==
    LET r == QHitMapRes(qr, fn, hits, hsps)
    IN  /\ last.op = "idle"
        /\ q2' = r.q
        /\ hits' = r.hits
        /\ hsps' = r.hsps
        /\ Done("hit_map", fn, r.err, << >>)
        /\ UNCHANGED << qr, appended, hspd >>

\* the same QueryResult when its caller maps functions over its Hits
NextMap ==
    \/ Return
    \/ \E x \in DOMAIN hits : QAppend(x)
    \/ \E k \in HitIds : QDelKey(k)
    \/ \E fn \in MapFns : QHitMap(fn)
SpecMap == Init /\ [][NextMap]_vars


---------------------------------------------------------------------------
(* The Hit specification: one Hit over a pool of HSPs *)

MaxHsps == 2
HitPool == {"h1"}
HitIdxArgs == (0 - MaxHsps - 1) .. MaxHsps
HitSliceArgs == (0 - 1) .. MaxHsps
HitHsps == {"p1", "p2"}
HitHspIds == {"a", "b"}

\* the values assigned or appended: one object, or a list of HSPs
ObjArgs == { << x >> : x \in HitHsps \cup {NotHsp} }
ListArgs == { << >>, << "p1" >>, << "p2" >>, << "p1", "p2" >> }

\* what a call that returns an element of the Hit hands back
RetOf(e) == IF e.tag = "hsp" THEN e.ref ELSE "#list"

\* the HSPs carry any hit and query ID; the Hit is built by
\* Hit(id, query_id, hsps) from a list of them
InitHit ==
    /\ \E hid \in [HitHsps -> HitHspIds], qid \in [HitHsps -> QIds] :
         hsps = [p \in HitHsps |->
                   [hit_id |-> hid[p], query_id |-> qid[p], score |-> PoolScore[p]]]
    /\ \E xs \in ListArgs :
         /\ HitNew("a", "q1", xs, hsps).err = "ok"
         /\ hits = [h \in HitPool |-> HitNew("a", "q1", xs, hsps).hit]
    /\ qr = NoObj
    /\ q2 = NoObj
    /\ appended = [on |-> FALSE, set |-> {}]
    /\ hspd = FreshHsp
    /\ last = Idle

HitAppend(h, x) ==
    LET r == HitAppendRes(hits[h], x, hsps)
    IN  /\ last.op = "idle"
        /\ Len(r.hit.hsps) <= MaxHsps
        /\ hits' = [hits EXCEPT ![h] = r.hit]
        /\ Done("hit_append", x, r.err, << >>)
        /\ UNCHANGED << hsps, qr, q2, appended, hspd >>

HitSetItemSlice(h, a, b, isList, xs) ==
    LET r == HitSetItemSliceRes(hits[h], a, b, isList, xs, hsps)
    IN  /\ last.op = "idle"
        /\ Len(r.hit.hsps) <= MaxHsps
        /\ hits' = [hits EXCEPT ![h] = r.hit]
        /\ Done("hit_setitem_slice", h, r.err, << >>)
        /\ UNCHANGED << hsps, qr, q2, appended, hspd >>

HitDelItemInt(h, i) ==
    LET r == HitDelItemIntRes(hits[h], i)
    IN  /\ last.op = "idle"
        /\ hits' = [hits EXCEPT ![h] = r.hit]
        /\ Done("hit_delitem_int", h, r.err, << >>)
        /\ UNCHANGED << hsps, qr, q2, appended, hspd >>

HitDelItemSlice(h, a, b) ==
    LET r == HitDelItemSliceRes(hits[h], a, b)
    IN  /\ last.op = "idle"
        /\ hits' = [hits EXCEPT ![h] = r.hit]
        /\ Done("hit_delitem_slice", h, r.err, << >>)
        /\ UNCHANGED << hsps, qr, q2, appended, hspd >>

HitPop(h, i) ==
    LET r == HitPopRes(hits[h], i)
    IN  /\ last.op = "idle"
        /\ hits' = [hits EXCEPT ![h] = r.hit]
        /\ Done("hit_pop", h, r.err, IF r.err = "ok" THEN << RetOf(r.ret) >> ELSE << >>)
        /\ UNCHANGED << hsps, qr, q2, appended, hspd >>

HitReverse(h) ==
    LET r == HitReverseRes(hits[h])
    IN  /\ last.op = "idle"
        /\ hits' = [hits EXCEPT ![h] = r.hit]
        /\ Done("hit_reverse", h, r.err, << >>)
        /\ UNCHANGED << hsps, qr, q2, appended, hspd >>

\* hit.sort(key=lambda hsp: hsp.score, reverse=reverse)
HitSortKeyed(h, reverse) ==
    LET r == HitSortKeyedRes(hits[h], reverse, hsps)
    IN  /\ last.op = "idle"
        /\ hits' = [hits EXCEPT ![h] = r.hit]
        /\ Done("hit_sort_keyed", h, r.err, << >>)
        /\ UNCHANGED << hsps, qr, q2, appended, hspd >>

\* hit.sort()
HitSortDefault(h) ==
    /\ last.op = "idle"
    /\ \E order \in HitSortDefaultOrders(hits[h]) :
         hits' = [hits EXCEPT ![h].hsps = order]
    /\ Done("hit_sort", h, "ok", << >>)
    /\ UNCHANGED << hsps, qr, q2, appended, hspd >>

HitQueryIdSet(h, value) ==
    LET r == HitQueryIdSetRes(hits, hsps, h, value)
    IN  /\ last.op = "idle"
        /\ hits' = r.hits
        /\ hsps' = r.hsps
        /\ Done("hit_query_id_set", h, r.err, << >>)
        /\ UNCHANGED << qr, q2, appended, hspd >>

NextHit ==
    \/ Return
    \/ \E h \in HitPool, x \in HitHsps \cup {NotHsp} : HitAppend(h, x)
    \/ \E h \in HitPool, i \in HitIdxArgs, xs \in ObjArgs : HitSetItemInt(h, i, FALSE, xs)
    \/ \E h \in HitPool, i \in HitIdxArgs, xs \in ListArgs : HitSetItemInt(h, i, TRUE, xs)
    \/ \E h \in HitPool, a \in HitSliceArgs, b \in HitSliceArgs, xs \in ObjArgs :
          HitSetItemSlice(h, a, b, FALSE, xs)
    \/ \E h \in HitPool, a \in HitSliceArgs, b \in HitSliceArgs, xs \in ListArgs :
          HitSetItemSlice(h, a, b, TRUE, xs)
    \/ \E h \in HitPool, i \in HitIdxArgs : HitDelItemInt(h, i)
    \/ \E h \in HitPool, a \in HitSliceArgs, b \in HitSliceArgs : HitDelItemSlice(h, a, b)
    \/ \E h \in HitPool, i \in HitIdxArgs : HitPop(h, i)
    \/ \E h \in HitPool : HitReverse(h)
    \/ \E h \in HitPool, reverse \in BOOLEAN : HitSortKeyed(h, reverse)
    \/ \E h \in HitPool : HitSortDefault(h)
    \/ \E h \in HitPool, v \in HitHspIds : HitIdSet(h, v)
    \/ \E h \in HitPool, v \in QIds : HitQueryIdSet(h, v)
SpecHit == InitHit /\ [][NextHit]_vars

\* C2: after any sequence of Hit operations every element the Hit contains
\* is an HSP whose hit_id is the Hit's id and whose query_id is the Hit's
\* query_id
C2_ElementsAreMatchingHsps ==
    \A h \in DOMAIN hits : \A i \in 1 .. Len(hits[h].hsps) :
       /\ hits[h].hsps[i].tag = "hsp"
       /\ hsps[hits[h].hsps[i].ref].hit_id = hits[h].id
       /\ hsps[hits[h].hsps[i].ref].query_id = hits[h].query_id

---------------------------------------------------------------------------
(* The HSP specifications: one HSP whose statistics are read and written *)

MaxVal == 2
CountVals == 0 .. MaxVal

\* a function without its entry for n
Drop(g, n) == [x \in DOMAIN g \ {n} |-> g[x]]

\* what a read hands back: nothing when it raised, else << count >> or the
\* fraction of a percentage
Returned(f, r) ==
    IF r.err # "ok" THEN << >> ELSE IF f \in PctFields THEN r.ret ELSE << r.ret >>

\* hsp.<f> is read; the history keeps, for each attribute the read stored,
\* the value it stored
HspRead(f) ==
    LET r == HspGet(hspd.d, f)
    IN  /\ last.op = "idle"
        /\ hspd' = [d |-> r.d,
                    wrote |-> hspd.wrote,
                    got |-> [n \in DOMAIN hspd.got \cup (DOMAIN r.d \ DOMAIN hspd.d) |->
                               IF n \in DOMAIN hspd.got THEN hspd.got[n] ELSE r.d[n]]]
        /\ Done("read", f, r.err, Returned(f, r))
        /\ UNCHANGED << hsps, hits, qr, q2, appended >>

\* hsp.<f> = value; the history keeps the value last written to the attribute
HspWrite(f, value) ==
    /\ last.op = "idle"
    /\ hspd' = [d |-> HspSet(hspd.d, f, value),
                wrote |-> SetAttr(hspd.wrote, Private[f], value),
                got |-> Drop(hspd.got, Private[f])]
    /\ Done("write", f, "ok", << >>)
    /\ UNCHANGED << hsps, hits, qr, q2, appended >>

\* an HSP as HSP.__init__ leaves it: none of the statistics is set
InitMetric ==
    /\ hsps = << >>
    /\ hits = << >>
    /\ qr = NoObj
    /\ q2 = NoObj
    /\ appended = [on |-> FALSE, set |-> {}]
    /\ hspd = FreshHsp
    /\ last = Idle

\* the four interdependent counts
NextMetric ==
    \/ Return
    \/ \E f \in CountFields : HspRead(f)
    \/ \E f \in CountFields, v \in CountVals : HspWrite(f, v)
SpecMetric == InitMetric /\ [][NextMetric]_vars

\* the percentages, pos_num and gapopen_num next to the counts, on an HSP
\* without sequences
PctCountVals == {0, 1}
PctVals == { Frac(50, 1) }
NextPct ==
    \/ Return
    \/ \E f \in CountFields \cup PctFields \cup {"gapopen_num"} : HspRead(f)
    \/ \E f \in CountFields, v \in PctCountVals : HspWrite(f, v)
    \/ \E f \in {"pos_num", "gapopen_num"} : HspWrite(f, 1)
    \/ \E f \in PctFields, v \in PctVals : HspWrite(f, v)
SpecPct == InitMetric /\ [][NextPct]_vars

\* gapopen_num: an HSP without sequences, a ContiguousHSP given a query
\* and/or a hit sequence (its setters turn each into a SeqRecord), or a
\* SegmentedHSP given blocks
SeqArgs == { << "A", "-", "A" >>, << "A", "-", "-", "C", "-" >>, << "-", "A", "A" >> }
SeqAttrs ==
    { [n \in S |-> SeqRecord(f[n])] :
        S \in SUBSET {"query", "hit"}, f \in [{"query", "hit"} -> SeqArgs] }
    \cup { [n \in {"query", "hit"} |-> BlockList] }

InitGapopen ==
    /\ hsps = << >>
    /\ hits = << >>
    /\ qr = NoObj
    /\ q2 = NoObj
    /\ appended = [on |-> FALSE, set |-> {}]
    /\ \E sq \in SeqAttrs : hspd = [FreshHsp EXCEPT !.d = sq]
    /\ last = Idle

NextGapopen ==
    \/ Return
    \/ HspRead("gapopen_num")
    \/ \E v \in CountVals : HspWrite("gapopen_num", v)
SpecGapopen == InitGapopen /\ [][NextGapopen]_vars

---------------------------------------------------------------------------
(* The construction specification: objects built from a pool of Hits and HSPs *)

HspLists == UNION { [1 .. n -> HspRefs] : n \in 0 .. MaxHsps }

\* QueryResult(id, hits, hit_key_function)
NewQueryResult(id, xs, hkf) ==
    LET r == QNew(id, xs, hkf, hits)
    IN  /\ last.op = "idle"
        /\ q2' = IF r.err = "ok" THEN r.q ELSE NoObj
        /\ Done("new_query_result", id, r.err, << >>)
        /\ UNCHANGED << hsps, hits, qr, appended, hspd >>

\* Hit(id, query_id, hsps)
NewHit(id, query_id, xs) ==
    LET r == HitNew(id, query_id, xs, hsps)
    IN  /\ last.op = "idle"
        /\ hits' = IF r.err = "ok" THEN Put(hits, New, r.hit) ELSE Remove(hits, New)
        /\ Done("new_hit", id, r.err, << >>)
        /\ UNCHANGED << hsps, qr, q2, appended, hspd >>

\* HSP(hit_id, query_id)
NewHSP(hit_id, query_id) ==
    LET r == HspNew(hit_id, query_id)
    IN  /\ last.op = "idle"
        /\ hsps' = IF r.err = "ok" THEN Put(hsps, New, r.hsp) ELSE Remove(hsps, New)
        /\ Done("new_hsp", hit_id, r.err, << >>)
        /\ UNCHANGED << hits, qr, q2, appended, hspd >>

InitConstruct ==
    /\ InitPool(HitRefs)
    /\ qr = NoObj
    /\ q2 = NoObj
    /\ appended = [on |-> FALSE, set |-> {}]
    /\ hspd = FreshHsp
    /\ last = Idle

NextConstruct ==
    \/ Return
    \/ \E id \in QIds \cup {None}, xs \in InitLists, hkf \in KeyFns :
          NewQueryResult(id, xs, hkf)
    \/ \E id \in HitIds \cup {None}, query_id \in QIds \cup {None}, xs \in HspLists :
          NewHit(id, query_id, xs)
    \/ \E hit_id \in HitIds \cup {None}, query_id \in QIds \cup {None} :
          NewHSP(hit_id, query_id)
SpecConstruct == InitConstruct /\ [][NextConstruct]_vars


---------------------------------------------------------------------------
(* Properties of the QueryResult container *)

\* the Hits of a QueryResult in order, and a list without its element at pos
HitList(q) == ODValues(q.hits)
Without(s, pos) == SubSeq(s, 1, pos - 1) \o SubSeq(s, pos + 1, Len(s))

\* C1: after any sequence of QueryResult operations, every Hit the
\* QueryResult contains has query_id equal to the QueryResult's current id
C1_HitsCarryQueryId ==
    \A i \in 1 .. Len(qr.hits) : hits[qr.hits[i].val].query_id = qr.id

\* C3: append of a Hit whose query_id differs from q.id, or whose key is
\* already present, raises an error and leaves q (mapping, order, id,
\* attributes) as it was
C3_RejectedAppendChangesNothing ==
    [][\A x \in DOMAIN hits :
         (QAppend(x) /\ (hits[x].query_id # qr.id
                         \/ ODHas(qr.hits, HitKeyOf(qr.hkf, hits[x]))))
            => (last'.outcome = "ValueError" /\ qr' = qr)]_vars

\* C3 witness: an append was rejected for its query id by a QueryResult
\* holding two Hits and a non-default attribute
C3_Witness ==
    /\ last.op = "append" /\ last.outcome = "ValueError"
    /\ hits[last.arg].query_id # qr.id
    /\ ~ODHas(qr.hits, HitKeyOf(qr.hkf, hits[last.arg]))
    /\ Len(qr.hits) = 2
    /\ qr.attrs # DefaultAttrs

\* C4: with the default key function q[i] is the i-th element of q.hits
\* for every index i in range (negative i counting from the end), and
\* q[h.id] is h for every Hit h that was appended and is still contained,
\* also after h's id or q's id was reassigned
C4_LookupByIndexAndId ==
    /\ \A i \in IdxArgs :
         LET n == Len(qr.hits)
             pos == IF i >= 0 THEN i + 1 ELSE n + i + 1
         IN  (pos >= 1 /\ pos <= n) =>
                QGetIntRes(qr, i) = [err |-> "ok", ret |-> HitList(qr)[pos]]
    /\ \A h \in appended.set :
         Holds(qr, h) => QGetKeyRes(qr, hits[h].id) = [err |-> "ok", ret |-> h]

\* C5: q.id = X sets q.id, the query_id of every contained Hit and of each
\* of their HSPs; hit.id = Y sets hit.id and the hit_id of each of the
\* Hit's HSPs; neither adds, removes or reorders a Hit or an HSP
C5_IdAssignmentCascades ==
    [][/\ \A v \in QIds :
            QIdSet(v) =>
               /\ qr'.id = v
               /\ qr'.hits = qr.hits
               /\ \A h \in DOMAIN hits : hits'[h].hsps = hits[h].hsps
               /\ \A h \in DOMAIN hits :
                    Holds(qr, h) =>
                       /\ hits'[h].query_id = v
                       /\ \A i \in 1 .. Len(hits[h].hsps) :
                            hits[h].hsps[i].tag = "hsp" =>
                               hsps'[hits[h].hsps[i].ref].query_id = v
       /\ \A h \in DOMAIN hits, v \in HitIds :
            HitIdSet(h, v) =>
               /\ hits'[h].id = v
               /\ qr' = qr
               /\ \A g \in DOMAIN hits : hits'[g].hsps = hits[g].hsps
               /\ \A i \in 1 .. Len(hits[h].hsps) :
                    hits[h].hsps[i].tag = "hsp" =>
                       hsps'[hits[h].hsps[i].ref].hit_id = v]_vars

\* C6: q[a:b] is a new QueryResult holding exactly the Hits of q at the
\* positions a..b-1 (bounds clamped to 0..n) in order, of length the clamped
\* b-a, with q's id, key function and attributes; q is unchanged
C6_SliceIsSubrange ==
    [][\A a \in SliceArgs, b \in SliceArgs :
         (a >= 0 /\ b >= 0 /\ QGetSlice(a, b)) =>
            LET n == Len(qr.hits)
                lo == IF a > n THEN n ELSE a
                hi == IF b > n THEN n ELSE b
            IN  /\ last'.outcome = "ok"
                /\ HitList(q2') = SubSeq(HitList(qr), lo + 1, hi)
                /\ Len(q2'.hits) = IF hi > lo THEN hi - lo ELSE 0
                /\ q2'.id = qr.id
                /\ q2'.hkf = qr.hkf
                /\ q2'.attrs = qr.attrs
                /\ qr' = qr /\ hits' = hits /\ hsps' = hsps]_vars

---------------------------------------------------------------------------
(* Properties of the HSP statistics *)

\* the value that ali_len = ident_num + mismatch_num + gap_num fixes for
\* the count f from the other three
CountOr0(d, g, f) == IF g = f THEN 0 ELSE d[Private[g]]
Expected(d, f) ==
    IF f = "ali_len"
    THEN d["_ident_num"] + d["_mismatch_num"] + d["_gap_num"]
    ELSE d["_ali_len"] - CountOr0(d, "ident_num", f) - CountOr0(d, "mismatch_num", f)
           - CountOr0(d, "gap_num", f)
IsSet(d, f) == Private[f] \in DOMAIN d

\* C7: with exactly one of the four counts unset and the other three set, a
\* read of the unset one returns the value fixed by ali_len = ident_num +
\* mismatch_num + gap_num and stores it; every later read with no write of
\* that field in between returns the same value
C7_DerivedOnceThenCached ==
    [][\A f \in CountFields :
         HspRead(f) =>
            /\ (~IsSet(hspd.d, f) /\ \A g \in CountFields \ {f} : IsSet(hspd.d, g)) =>
                  /\ last'.outcome = "ok"
                  /\ last'.ret = << Expected(hspd.d, f) >>
                  /\ IsSet(hspd'.d, f)
                  /\ hspd'.d[Private[f]] = Expected(hspd.d, f)
            /\ Private[f] \in DOMAIN hspd.got =>
                  /\ last'.outcome = "ok"
                  /\ last'.ret = << hspd.got[Private[f]] >>]_vars

\* C7 witness: ali_len was computed, another count was then rewritten, and
\* a later read of ali_len returned the computed value, which is no longer
\* the sum of the other three
C7_Witness ==
    /\ last.op = "read" /\ last.arg = "ali_len" /\ last.outcome = "ok"
    /\ "_ali_len" \in DOMAIN hspd.got
    /\ last.ret = << hspd.got["_ali_len"] >>
    /\ hspd.got["_ali_len"] # Expected(hspd.d, "ali_len")

\* C8: after an explicit write to one of the eight statistics every read of
\* it returns the written value until the next write to it, whatever the
\* other fields hold
C8_WrittenValueIsRead ==
    [][\A f \in DOMAIN Private :
         (HspRead(f) /\ Private[f] \in DOMAIN hspd.wrote) =>
            /\ last'.outcome = "ok"
            /\ last'.ret = IF f \in PctFields THEN hspd.wrote[Private[f]]
                           ELSE << hspd.wrote[Private[f]] >>
            /\ hspd'.d[Private[f]] = hspd.wrote[Private[f]]]_vars

\* C8 witness: a read of ali_len returned the written value although the
\* other three counts are set and sum to another value
C8_Witness ==
    /\ last.op = "read" /\ last.arg = "ali_len" /\ last.outcome = "ok"
    /\ "_ali_len" \in DOMAIN hspd.wrote
    /\ \A g \in CountFields : IsSet(hspd.d, g)
    /\ last.ret = << hspd.wrote["_ali_len"] >>
    /\ hspd.wrote["_ali_len"] # Expected(hspd.d, "ali_len")

\* a count that can be neither read nor derived: it is unset and so is at
\* least one of the other three
Unknown(d, f) == ~IsSet(d, f) /\ \E g \in CountFields \ {f} : ~IsSet(d, g)
CountOf == [ident_pct |-> "ident_num", gap_pct |-> "gap_num"]

\* C9: a read of a count that is unset while another of the four is unset
\* raises the insufficiency error and leaves every field as it was; so does
\* a read of an unset ident_pct or gap_pct whose count or ali_len can be
\* neither read nor derived
C9_InsufficientReadFails ==
    [][/\ \A f \in CountFields :
            (HspRead(f) /\ Unknown(hspd.d, f)) =>
               last'.outcome = "AttributeError" /\ hspd'.d = hspd.d
       /\ \A f \in DOMAIN CountOf :
            (HspRead(f) /\ ~IsSet(hspd.d, f)
               /\ (Unknown(hspd.d, CountOf[f]) \/ Unknown(hspd.d, "ali_len"))) =>
               last'.outcome = "AttributeError" /\ hspd'.d = hspd.d]_vars

\* C9 witness: gap_pct was read with gap_num and ident_num set but neither
\* ali_len nor mismatch_num, and the read failed
C9_Witness ==
    /\ last.op = "read" /\ last.arg = "gap_pct" /\ last.outcome = "AttributeError"
    /\ IsSet(hspd.d, "gap_num") /\ IsSet(hspd.d, "ident_num")
    /\ ~IsSet(hspd.d, "ali_len") /\ ~IsSet(hspd.d, "mismatch_num")

---------------------------------------------------------------------------
(* Further properties of the QueryResult container *)

\* C11: pop with a default returns the default, raises nothing and leaves
\* the container unchanged whenever the designated Hit is not found: for an
\* absent key, and for an integer index out of the range of the current hits
C11_PopDefaultNeverRaises ==
    [][/\ \A i \in IdxArgs :
            (QPopInt(i, TRUE) /\ (i >= Len(qr.hits) \/ 0 - i > Len(qr.hits))) =>
               (last'.outcome = "ok" /\ last'.ret = << Dflt >> /\ qr' = qr)
       /\ \A k \in HitIds :
            (QPopKey(k, TRUE) /\ \A j \in 1 .. Len(qr.hits) : qr.hits[j].key # k) =>
               (last'.outcome = "ok" /\ last'.ret = << Dflt >> /\ qr' = qr)]_vars

\* C12: index(k) for a key k returns the zero-based position i of k among
\* the hit keys, so that q[i] is q[k], when k is present, and -1 when k is
\* absent; it never raises and never changes the container
C12_IndexOfKey ==
    [][\A k \in HitIds :
         QIndex(k) =>
            /\ last'.outcome = "ok"
            /\ qr' = qr /\ hits' = hits /\ hsps' = hsps
            /\ IF \E j \in 1 .. Len(qr.hits) : qr.hits[j].key = k
               THEN \E j \in 1 .. Len(qr.hits) :
                      /\ qr.hits[j].key = k
                      /\ last'.ret = << j - 1 >>
                      /\ QGetIntRes(qr, j - 1) = QGetKeyRes(qr, k)
                      /\ QGetKeyRes(qr, k).err = "ok"
               ELSE last'.ret = << 0 - 1 >>]_vars

\* C12 witness: index returned 1 for the key of the second of three Hits,
\* a key that is not that Hit's id
C12_Witness ==
    /\ last.op = "index" /\ last.outcome = "ok"
    /\ last.arg \in HitIds
    /\ Len(qr.hits) = 3
    /\ qr.hits[2].key = last.arg
    /\ hits[qr.hits[2].val].id # last.arg
    /\ last.ret = << 1 >>

\* C13: q.hit_filter(p) returns a new QueryResult holding exactly the Hits
\* of q for which p holds, in their original relative order, with q's id,
\* key function and attributes; q's own hits and their order are unchanged
C13_FilterKeepsMatchingHits ==
    [][\A keep \in Predicates :
         QHitFilter(TRUE, keep) =>
            /\ last'.outcome = "ok"
            /\ HitList(q2') = SelectSeq(HitList(qr), LAMBDA h : h \in keep)
            /\ q2'.id = qr.id
            /\ q2'.hkf = qr.hkf
            /\ q2'.attrs = qr.attrs
            /\ qr' = qr /\ hits' = hits /\ hsps' = hsps]_vars

\* C14: reversed(q) is a new QueryResult whose Hits are q's Hits in the
\* opposite order, with q's id and attributes; q is unchanged, and reversing
\* the result again gives q's order
C14_ReversedIsOppositeOrder ==
    [][QReversed =>
         LET n == Len(qr.hits)
         IN  /\ last'.outcome = "ok"
             /\ Len(q2'.hits) = n
             /\ \A i \in 1 .. n : HitList(q2')[i] = HitList(qr)[n + 1 - i]
             /\ q2'.id = qr.id
             /\ q2'.attrs = qr.attrs
             /\ qr' = qr /\ hits' = hits /\ hsps' = hsps
             /\ QReversedRes(q2', hits').err = "ok"
             /\ HitList(QReversedRes(q2', hits').q) = HitList(qr)]_vars

\* C15: sort with no comparison key retains the hit order when reverse is
\* false and reverses it exactly when reverse is true; in place the same
\* instance is updated and nothing is returned, otherwise a new QueryResult
\* with that order and q's id and attributes is returned and q is unchanged
C15_SortWithoutKeyIsStructural ==
    [][\A reverse \in BOOLEAN :
         LET n == Len(qr.hits)
             want == [i \in 1 .. n |->
                        IF reverse THEN HitList(qr)[n + 1 - i] ELSE HitList(qr)[i]]
         IN  /\ QSortInPlace(FALSE, reverse) =>
                  /\ last'.outcome = "ok" /\ last'.ret = << >>
                  /\ HitList(qr') = want
                  /\ qr'.id = qr.id /\ qr'.attrs = qr.attrs
                  /\ hits' = hits /\ hsps' = hsps
             /\ QSortCopy(FALSE, reverse) =>
                  /\ last'.outcome = "ok"
                  /\ HitList(q2') = want
                  /\ q2'.id = qr.id /\ q2'.attrs = qr.attrs
                  /\ qr' = qr /\ hits' = hits /\ hsps' = hsps]_vars

\* C16: q[k] = v fails with a type error when k is not a string or v is not
\* a Hit, and with a consistency error when v.query_id differs from q.id,
\* leaving q's mapping, order and length unchanged; otherwise v is stored
\* under k
C16_SetItemRejectsBeforeMutating ==
    [][\A k \in HitIds \cup {NotStr}, x \in DOMAIN hits \cup {NotHit} :
         QSetItem(k, x) =>
            IF k \notin HitIds \/ x \notin DOMAIN hits
            THEN last'.outcome = "TypeError" /\ qr' = qr
            ELSE IF hits[x].query_id # qr.id
            THEN last'.outcome = "ValueError" /\ qr' = qr
            ELSE /\ last'.outcome = "ok"
                 /\ \E j \in 1 .. Len(qr'.hits) :
                      qr'.hits[j] = [key |-> k, val |-> x]
                 /\ \A j \in 1 .. Len(qr.hits) :
                      qr.hits[j].key # k => qr'.hits[j] = qr.hits[j]]_vars

\* C16 witness: an assignment by key to a QueryResult of two Hits was
\* rejected for the query id of the Hit
C16_Witness ==
    /\ last.op = "setitem" /\ last.outcome = "ValueError"
    /\ last.arg \in DOMAIN hits
    /\ hits[last.arg].query_id # qr.id
    /\ Len(qr.hits) = 2

\* the entries of s at the positions outside D, in order
Remaining(s, D) ==
    [j \in 1 .. Len(s) - Cardinality(D \cap (1 .. Len(s))) |->
        s[CHOOSE p \in (1 .. Len(s)) \ D :
            Cardinality({ r \in (1 .. p) \ D : TRUE }) = j]]
\* a slice bound counted from the end when negative and limited to 0 .. n
Clamp(n, a) ==
    LET c == IF a < 0 THEN n + a ELSE a
    IN  IF c < 0 THEN 0 ELSE IF c > n THEN n ELSE c

\* C18: del q[k], del q[i] and del q[a:b] remove exactly the designated
\* Hits, keep the remaining Hits in their relative order and reduce the
\* length by the number removed; deleting an absent key or an out-of-range
\* index fails with a lookup error and removes nothing
C18_DeleteRemovesDesignated ==
    [][LET n == Len(qr.hits)
       IN  /\ \A k \in HitIds :
                (last'.op = "delitem_key" /\ QDelKey(k)) =>
                   LET D == { j \in 1 .. n : qr.hits[j].key = k }
                   IN  IF D = {} THEN last'.outcome = "KeyError" /\ qr' = qr
                       ELSE /\ last'.outcome = "ok"
                            /\ qr'.hits = Remaining(qr.hits, D)
                            /\ Len(qr'.hits) = n - 1
           /\ \A i \in IdxArgs :
                (last'.op = "delitem_int" /\ QDelInt(i)) =>
                   LET pos == IF i >= 0 THEN i + 1 ELSE n + i + 1
                   IN  IF pos < 1 \/ pos > n
                       THEN last'.outcome = "IndexError" /\ qr' = qr
                       ELSE /\ last'.outcome = "ok"
                            /\ qr'.hits = Remaining(qr.hits, {pos})
                            /\ Len(qr'.hits) = n - 1
           /\ \A a \in SliceArgs, b \in SliceArgs :
                (last'.op = "delitem_slice" /\ QDelSlice(a, b)) =>
                   LET D == { j \in 1 .. n : Clamp(n, a) < j /\ j <= Clamp(n, b) }
                   IN  /\ last'.outcome = "ok"
                       /\ qr'.hits = Remaining(qr.hits, D)
                       /\ Len(qr'.hits) = n - Cardinality(D)]_vars

\* C18 witness: the deletion of a key that a QueryResult of two Hits does
\* not hold failed with a lookup error
C18_Witness ==
    /\ last.op = "delitem_key" /\ last.outcome = "KeyError"
    /\ Len(qr.hits) = 2
    /\ \A j \in 1 .. Len(qr.hits) : qr.hits[j].key # last.arg

\* C20: q.hit_map(fn) returns a new QueryResult whose i-th hit is fn applied
\* to a copy of q's i-th hit; whatever fn does to the copy it is given,
\* q's own hits, their ids, and the hit_id and query_id of the HSPs
\* reachable from q are the same after the call as before
C20_MapLeavesOriginalAlone ==
    [][\A fn \in MapFns :
         QHitMap(fn) =>
            /\ qr' = qr
            /\ \A h \in DOMAIN hits : hits'[h] = hits[h]
            /\ \A j \in 1 .. Len(qr.hits) :
                 \A e \in 1 .. Len(hits[qr.hits[j].val].hsps) :
                    LET p == hits[qr.hits[j].val].hsps[e].ref
                    IN  /\ hsps'[p].hit_id = hsps[p].hit_id
                        /\ hsps'[p].query_id = hsps[p].query_id
            /\ last'.outcome = "ok" =>
                 /\ Len(q2'.hits) = Len(qr.hits)
                 /\ \A j \in 1 .. Len(qr.hits) :
                      LET c == q2'.hits[j].val
                          h == qr.hits[j].val
                      IN  /\ c \notin DOMAIN hits
                          /\ hits'[c].query_id = hits[h].query_id
                          /\ hits'[c].hsps = hits[h].hsps
                          /\ hits'[c].id = IF fn = None THEN hits[h].id ELSE fn]_vars

---------------------------------------------------------------------------
(* Further properties of the Hit container *)

\* the value x is no HSP, or an HSP whose hit_id or query_id is not hit's
Mismatch(hit, x) ==
    \/ x \notin DOMAIN hsps
    \/ hsps[x].hit_id # hit.id
    \/ hsps[x].query_id # hit.query_id
Rejected(outcome) == outcome \in {"TypeError", "ValueError"}
\* the values assigned: one object, or a list of HSPs
AssignedValues ==
    { [isList |-> FALSE, xs |-> xs] : xs \in ObjArgs }
    \cup { [isList |-> TRUE, xs |-> xs] : xs \in ListArgs }

\* C17: appending to a Hit, or assigning by index or slice, a value that is
\* not an HSP, or an HSP or a list containing an HSP whose hit_id or
\* query_id differs from the Hit's, fails with a type or consistency error
\* and leaves the Hit's HSP sequence unchanged, none of the list's valid
\* elements being stored
C17_InvalidHspIsRejected ==
    [][\A h \in HitPool :
         /\ \A x \in HitHsps \cup {NotHsp} :
              (last'.op = "hit_append" /\ Mismatch(hits[h], x) /\ HitAppend(h, x)) =>
                 (Rejected(last'.outcome) /\ hits' = hits)
         /\ \A v \in AssignedValues :
              (\E j \in 1 .. Len(v.xs) : Mismatch(hits[h], v.xs[j])) =>
                 /\ \A i \in HitIdxArgs :
                      (last'.op = "hit_setitem_int"
                         /\ HitSetItemInt(h, i, v.isList, v.xs)) =>
                         (Rejected(last'.outcome) /\ hits' = hits)
                 /\ \A a \in HitSliceArgs, b \in HitSliceArgs :
                      (last'.op = "hit_setitem_slice"
                         /\ HitSetItemSlice(h, a, b, v.isList, v.xs)) =>
                         (Rejected(last'.outcome) /\ hits' = hits)]_vars

\* C17 witness: a slice assignment to a Hit holding one HSP was rejected
\* with a consistency error while p1 matches the Hit and p2 does not, so
\* the rejected value was the list [p2] or [p1, p2]
C17_Witness ==
    /\ last.op = "hit_setitem_slice" /\ last.outcome = "ValueError"
    /\ Len(hits["h1"].hsps) = 1
    /\ ~Mismatch(hits["h1"], "p1")
    /\ Mismatch(hits["h1"], "p2")

---------------------------------------------------------------------------
(* Properties of construction *)

\* C19: construction fails and yields no object when a required identifier
\* is null (QueryResult id; Hit id or query_id; HSP hit_id or query_id),
\* when a QueryResult is built from hits two of which produce the same key
\* or one of which has a query_id different from the given id, and when a
\* Hit is built from an HSP whose hit_id or query_id does not match the
\* given ids
C19_ConstructionFailsFast ==
    [][/\ \A id \in QIds \cup {None}, xs \in InitLists, hkf \in KeyFns :
            (last'.op = "new_query_result" /\ NewQueryResult(id, xs, hkf)
               /\ \/ id = None
                  \/ \E i, j \in 1 .. Len(xs) :
                        i # j /\ HitKeyOf(hkf, hits[xs[i]]) = HitKeyOf(hkf, hits[xs[j]])
                  \/ \E i \in 1 .. Len(xs) : hits[xs[i]].query_id # id) =>
               (last'.outcome # "ok" /\ q2' = NoObj)
       /\ \A id \in HitIds \cup {None}, query_id \in QIds \cup {None}, xs \in HspLists :
            (last'.op = "new_hit" /\ NewHit(id, query_id, xs)
               /\ \/ id = None
                  \/ query_id = None
                  \/ \E i \in 1 .. Len(xs) :
                        hsps[xs[i]].hit_id # id \/ hsps[xs[i]].query_id # query_id) =>
               (last'.outcome # "ok" /\ New \notin DOMAIN hits')
       /\ \A hit_id \in HitIds \cup {None}, query_id \in QIds \cup {None} :
            (last'.op = "new_hsp" /\ NewHSP(hit_id, query_id)
               /\ (hit_id = None \/ query_id = None)) =>
               (last'.outcome # "ok" /\ New \notin DOMAIN hsps')]_vars

\* C19 witness: the construction of a QueryResult with a non-null id
\* failed, for the keys or the query ids of its hits, and returned nothing
C19_Witness ==
    /\ last.op = "new_query_result" /\ last.outcome = "ValueError"
    /\ last.arg # None
    /\ q2 = NoObj

---------------------------------------------------------------------------
(* Descriptions: the sequence attributes of HSPs and the desc cascade *)

\* the value of an HSP's `query` (or `hit`) attribute: absent ("none": the
\* property getter raises AttributeError), one SeqRecord ("rec",
\* ContiguousHSP) or a list of SeqRecords ("list", SegmentedHSP); descs
\* holds the description of each record
NoSeq == [tag |-> "none", descs |-> << >>]
OneRec(desc) == [tag |-> "rec", descs |-> << desc >>]
RecList(n, desc) == [tag |-> "list", descs |-> [i \in 1 .. n |-> desc]]

\* the shapes an HSP of the pool is constructed in: a base HSP, a
\* ContiguousHSP given both sequences, only a hit sequence or only a query
\* sequence, a SegmentedHSP given two blocks; _prep_seq gives every record
\* the description ''
HspShapes ==
    { [kind |-> "HSP", query |-> NoSeq, hit |-> NoSeq],
      [kind |-> "ContiguousHSP", query |-> OneRec(""), hit |-> OneRec("")],
      [kind |-> "ContiguousHSP", query |-> NoSeq, hit |-> OneRec("")],
      [kind |-> "ContiguousHSP", query |-> OneRec(""), hit |-> NoSeq],
      [kind |-> "SegmentedHSP", query |-> RecList(2, ""), hit |-> RecList(2, "")] }

DescVals == {"d1", "d2"}

\* try: hsp.<side>.description = value / except AttributeError: pass
\* (the getter of an absent attribute raises AttributeError, and so does
\* the assignment of an attribute on a list object)
SetDescription(seq, value) ==
    IF seq.tag = "rec" THEN OneRec(value) ELSE seq

\* the loop over the elements of one Hit; an element that is a list object
\* has no `query` or `hit` attribute: AttributeError, caught
RECURSIVE DescCascade(_, _, _, _)
DescCascade(P, elems, side, value) ==
    IF elems = << >> THEN P
    ELSE IF Head(elems).tag # "hsp" THEN DescCascade(P, Tail(elems), side, value)
    ELSE DescCascade(
            [P EXCEPT ![Head(elems).ref][side] = SetDescription(@, value)],
            Tail(elems), side, value)

\* Hit._desc_set
HitDescSetRes(H, P, h, value) ==
    [err |-> "ok",
     hits |-> [H EXCEPT ![h].desc = value],
     hsps |-> DescCascade(P, H[h].hsps, "hit", value)]

\* the loop `for hit in self.hits: for hsp in hit:` of QueryResult._desc_set
RECURSIVE QDescCascade(_, _, _, _)
QDescCascade(H, P, xs, value) ==
    IF xs = << >> THEN P
    ELSE QDescCascade(H, DescCascade(P, H[Head(xs)].hsps, "query", value),
                      Tail(xs), value)

\* QueryResult._desc_set
QDescSetRes(q, H, P, value) ==
    [err |-> "ok",
     q |-> [q EXCEPT !.attrs = [@ EXCEPT !["_desc"] = value]],
     hsps |-> QDescCascade(H, P, ODValues(q.hits), value)]

\* the specification: a pool of two Hits whose HSPs are constructed in any
\* of the shapes, a QueryResult over some of them, and callers that assign
\* descriptions
InitDesc ==
    /\ \E shape \in [HspRefs -> HspShapes] :
          hsps = [p \in HspRefs |->
                    [hit_id |-> PoolIds[PoolOwner[p]], query_id |-> "q1",
                     score |-> PoolScore[p], kind |-> shape[p].kind,
                     query |-> shape[p].query, hit |-> shape[p].hit]]
    /\ hits = [h \in RenamePool |->
                 [id |-> PoolIds[h], query_id |-> "q1",
                  hsps |-> ERefs(PoolHsps[h]), desc |-> ""]]
    /\ \A h \in RenamePool : HitNew(PoolIds[h], "q1", PoolHsps[h], hsps).err = "ok"
    /\ \E xs \in InitLists :
         /\ \A i \in 1 .. Len(xs) : xs[i] \in DOMAIN hits
         /\ QNew("q1", xs, "id", hits).err = "ok"
         /\ qr = QNew("q1", xs, "id", hits).q
    /\ appended = [on |-> FALSE, set |-> {}]
    /\ q2 = NoObj
    /\ hspd = FreshHsp
    /\ last = Idle

\* qresult.desc = value
QDescSet(value) ==
    LET r == QDescSetRes(qr, hits, hsps, value)
    IN  /\ last.op = "idle"
        /\ qr' = r.q
        /\ hsps' = r.hsps
        /\ Done("q_desc_set", None, r.err, << >>)
        /\ UNCHANGED << hits, q2, appended, hspd >>

\* hit.desc = value
HitDescSet(h, value) ==
    LET r == HitDescSetRes(hits, hsps, h, value)
    IN  /\ last.op = "idle"
        /\ hits' = r.hits
        /\ hsps' = r.hsps
        /\ Done("hit_desc_set", h, r.err, << >>)
        /\ UNCHANGED << qr, q2, appended, hspd >>

NextDesc ==
    \/ Return
    \/ \E v \in DescVals : QDescSet(v)
    \/ \E h \in DOMAIN hits, v \in DescVals : HitDescSet(h, v)
SpecDesc == InitDesc /\ [][NextDesc]_vars

\* every record of a sequence attribute carries the description v
AllDescs(seq, v) == \A i \in 1 .. Len(seq.descs) : seq.descs[i] = v

\* C21: after a description is assigned to a QueryResult, every HSP of
\* every contained hit that has a query sequence (one record or a list of
\* records) carries the new value as its query-sequence description, and
\* the assignment raises nothing; after a description is assigned to a Hit,
\* every contained HSP that has a hit sequence carries the new value as its
\* hit-sequence description
C21_DescriptionCascades ==
    [][/\ \A v \in DescVals :
            QDescSet(v) =>
               /\ last'.outcome = "ok"
               /\ \A j \in 1 .. Len(qr.hits) :
                    \A e \in 1 .. Len(hits[qr.hits[j].val].hsps) :
                       LET p == hits[qr.hits[j].val].hsps[e].ref
                       IN  hsps[p].query.tag # "none" => AllDescs(hsps'[p].query, v)
       /\ \A h \in DOMAIN hits, v \in DescVals :
            HitDescSet(h, v) =>
               /\ last'.outcome = "ok"
               /\ \A e \in 1 .. Len(hits[h].hsps) :
                    LET p == hits[h].hsps[e].ref
                    IN  hsps[p].hit.tag # "none" => AllDescs(hsps'[p].hit, v)]_vars

\* what the cascade does: an HSP whose sequence attribute is one record
\* receives the value, every other HSP stays as it is
DescCascadeReachesRecords ==
    [][/\ \A v \in DescVals :
            QDescSet(v) =>
               /\ last'.outcome = "ok"
               /\ \A j \in 1 .. Len(qr.hits) :
                    \A e \in 1 .. Len(hits[qr.hits[j].val].hsps) :
                       LET p == hits[qr.hits[j].val].hsps[e].ref
                       IN  /\ hsps[p].query.tag = "rec" => AllDescs(hsps'[p].query, v)
                           /\ hsps[p].query.tag # "rec" => hsps'[p] = hsps[p]
       /\ \A h \in DOMAIN hits, v \in DescVals :
            HitDescSet(h, v) =>
               /\ last'.outcome = "ok"
               /\ \A e \in 1 .. Len(hits[h].hsps) :
                    LET p == hits[h].hsps[e].ref
                    IN  /\ hsps[p].hit.tag = "rec" => AllDescs(hsps'[p].hit, v)
                        /\ hsps[p].hit.tag # "rec" => hsps'[p] = hsps[p]]_vars

---------------------------------------------------------------------------
(* Strands: hit_strand and query_strand derived from the frames *)

\* the attribute each strand property is stored in, and the plain
\* attribute holding the frame it is derived from
StrandAttr == [hit |-> "_hit_strand", query |-> "_query_strand"]
FrameAttr == [hit |-> "hit_frame", query |-> "query_frame"]
Sides == {"hit", "query"}

\* values are passed as << n >> for the integer n and << >> for None
MaxFrame == 2
IntArgs == { << n >> : n \in (0 - MaxFrame) .. MaxFrame }
FrameArgs == IntArgs \cup { << >> }

\* Python 2 `a / b` on integers with b > 0: floor division
PyIntDiv(a, b) == a \div b

\* (mutant) a getter that hands back the frame itself
StrandGet_Frame(d, side) ==
    IF HasAttr(d, StrandAttr[side])
    THEN [err |-> "ok", ret |-> d[StrandAttr[side]], d |-> d]
    ELSE IF ~HasAttr(d, FrameAttr[side]) THEN [err |-> "AttributeError", ret |-> None, d |-> d]
    ELSE IF d[FrameAttr[side]] = << >> THEN [err |-> "AttributeError", ret |-> None, d |-> d]
    ELSE LET frame == d[FrameAttr[side]][1]
         IN  [err |-> "ok", ret |-> frame, d |-> SetAttr(d, StrandAttr[side], frame)]

\* HSP._hit_strand_get / HSP._query_strand_get: a missing frame raises
\* AttributeError and abs(None) raises TypeError, both turned into the
\* AttributeError "Not enough is known"; frame 0 raises ZeroDivisionError,
\* turned into strand 0
StrandGet(d, side) ==
    IF HasAttr(d, StrandAttr[side])
    THEN [err |-> "ok", ret |-> d[StrandAttr[side]], d |-> d]
    ELSE IF ~HasAttr(d, FrameAttr[side]) THEN [err |-> "AttributeError", ret |-> None, d |-> d]
    ELSE IF d[FrameAttr[side]] = << >> THEN [err |-> "AttributeError", ret |-> None, d |-> d]
    ELSE LET frame == d[FrameAttr[side]][1]
             strand == IF Abs(frame) = 0 THEN 0 ELSE PyIntDiv(frame, Abs(frame))
         IN  [err |-> "ok", ret |-> strand, d |-> SetAttr(d, StrandAttr[side], strand)]

\* HSP._hit_strand_set / HSP._query_strand_set
StrandSet(d, side, value) ==
    IF value \notin { << 0 - 1 >>, << 0 >>, << 1 >> }
    THEN [err |-> "ValueError", d |-> d]
    ELSE [err |-> "ok", d |-> SetAttr(d, StrandAttr[side], value[1])]

\* hsp.hit_strand / hsp.query_strand is read
StrandRead(side) ==
    LET r == StrandGet(hspd.d, side)
        a == StrandAttr[side]
    IN  /\ last.op = "idle"
        /\ hspd' = [d |-> r.d,
                    wrote |-> hspd.wrote,
                    got |-> IF HasAttr(r.d, a) /\ ~HasAttr(hspd.d, a)
                            THEN SetAttr(hspd.got, a, r.d[a]) ELSE hspd.got]
        /\ Done("strand_read", side, r.err, Returns(r))
        /\ UNCHANGED << hsps, hits, qr, q2, appended >>

\* hsp.hit_strand = value / hsp.query_strand = value
StrandWrite(side, value) ==
    LET r == StrandSet(hspd.d, side, value)
        a == StrandAttr[side]
    IN  /\ last.op = "idle"
        /\ hspd' = IF r.err # "ok" THEN hspd
                   ELSE [d |-> r.d,
                         wrote |-> SetAttr(hspd.wrote, a, value[1]),
                         got |-> Drop(hspd.got, a)]
        /\ Done("strand_write", side, r.err, << >>)
        /\ UNCHANGED << hsps, hits, qr, q2, appended >>

\* hsp.hit_frame = value / hsp.query_frame = value: a plain attribute
FrameWrite(side, value) ==
    /\ last.op = "idle"
    /\ hspd' = [hspd EXCEPT !.d = SetAttr(@, FrameAttr[side], value)]
    /\ Done("frame_write", side, "ok", << >>)
    /\ UNCHANGED << hsps, hits, qr, q2, appended >>

NextStrand ==
    \/ Return
    \/ \E side \in Sides : StrandRead(side)
    \/ \E side \in Sides, v \in FrameArgs : StrandWrite(side, v)
    \/ \E side \in Sides, v \in FrameArgs : FrameWrite(side, v)
SpecStrand == InitMetric /\ [][NextStrand]_vars

---------------------------------------------------------------------------
(* Properties of strands *)

\* the sign of an integer
Sign(n) == IF n < 0 THEN 0 - 1 ELSE IF n > 0 THEN 1 ELSE 0

---------------------------------------------------------------------------
(* ContiguousHSP and SegmentedHSP: construction, sequences, alignment *)

\* the alphabets: the default of the constructors' alphabet argument
\* (single_letter_alphabet) and another one
DefaultAlphabet == "single_letter_alphabet"
Alphabets == {DefaultAlphabet, "generic_dna"}

\* a sequence argument: a string (type "str", '' when seq is empty), a
\* SeqRecord object carrying the alphabet of its own Seq, or an object of
\* another type
StrArg(s) == [type |-> "str", seq |-> s, alphabet |-> None]
RecArg(s, a) == [type |-> "SeqRecord", seq |-> s, alphabet |-> a]
OtherArg == [type |-> "other", seq |-> << >>, alphabet |-> None]

\* `if hit_seq:` -- only the empty string is false (a SeqRecord is true
\* whatever its length)
Truthy(x) == x.type # "str" \/ Len(x.seq) > 0

\* a SeqRecord held by an HSP: its residues, the alphabet of its Seq, its
\* id and its description (its name is fixed by the side it is on)
Record(s, a, id, desc) == [seq |-> s, alphabet |-> a, id |-> id, desc |-> desc]

\* HSP._prep_seq(seq, seq_id, seq_type) with desc = '': a SeqRecord is
\* relabelled and kept, a string is wrapped with the HSP's alphabet
PrepSeq(d, x, seq_id) ==
    IF x.type = "SeqRecord"
    THEN [err |-> "ok", rec |-> Record(x.seq, x.alphabet, seq_id, "")]
    ELSE IF x.type = "str"
    THEN [err |-> "ok", rec |-> Record(x.seq, d["alphabet"], seq_id, "")]
    ELSE [err |-> "TypeError", rec |-> Record(<< >>, None, None, "")]

\* the list comprehension [self._prep_seq(seq, id, side) for seq in value]
RECURSIVE PrepSeqs(_, _, _)
PrepSeqs(d, xs, seq_id) ==
    IF xs = << >> THEN [err |-> "ok", recs |-> << >>]
    ELSE LET r == PrepSeq(d, Head(xs), seq_id)
             rest == PrepSeqs(d, Tail(xs), seq_id)
         IN  IF r.err # "ok" THEN [err |-> r.err, recs |-> << >>]
             ELSE IF rest.err # "ok" THEN rest
             ELSE [err |-> "ok", recs |-> << r.rec >> \o rest.recs]

\* HSP.__init__(hit_id, query_id, hit_seq, query_seq, alphabet): the
\* instance __dict__ it leaves ("class" stands for the object's class)
HspInit(class, hit_id, query_id, hit_seq, query_seq, alphabet) ==
    IF hit_id = None \/ query_id = None THEN [err |-> "ValueError", d |-> << >>]
    ELSE [err |-> "ok",
          d |-> [class |-> class, hit_id |-> hit_id, query_id |-> query_id,
                 alphabet |-> alphabet, alignment_annotation |-> << >>]]

\* ContiguousHSP.__init__(hit_id, query_id, hit_seq, query_seq, alphabet):
\* it calls HSP.__init__(self, hit_id, query_id, alphabet), which binds the
\* alphabet to the parameter hit_seq and leaves HSP.__init__'s own alphabet
\* parameter at its default; then `self.query = query_seq` and
\* `self.hit = hit_seq` for the arguments that are true
ContigNew(hit_id, query_id, hit_seq, query_seq, alphabet) ==
    LET b == HspInit("ContiguousHSP", hit_id, query_id, alphabet, StrArg(<< >>),
                     DefaultAlphabet)
    IN  IF b.err # "ok" THEN b
        ELSE LET q == IF Truthy(query_seq) THEN PrepSeq(b.d, query_seq, query_id)
                      ELSE [err |-> "ok", rec |-> None]
                 d1 == IF Truthy(query_seq) /\ q.err = "ok"
                       THEN SetAttr(b.d, "_query", q.rec) ELSE b.d
                 h == IF Truthy(hit_seq) THEN PrepSeq(d1, hit_seq, hit_id)
                      ELSE [err |-> "ok", rec |-> None]
             IN  IF q.err # "ok" THEN [err |-> q.err, d |-> << >>]
                 ELSE IF h.err # "ok" THEN [err |-> h.err, d |-> << >>]
                 ELSE [err |-> "ok",
                       d |-> IF Truthy(hit_seq) THEN SetAttr(d1, "_hit", h.rec) ELSE d1]

\* the first and the second members of the blocks
Firsts(blocks) == [i \in 1 .. Len(blocks) |-> blocks[i][1]]
Seconds(blocks) == [i \in 1 .. Len(blocks) |-> blocks[i][2]]

\* SegmentedHSP._query_set / SegmentedHSP._hit_set
SegSeqSet(d, side, xs) ==
    LET r == PrepSeqs(d, xs, IF side = "query" THEN d["query_id"] ELSE d["hit_id"])
    IN  IF r.err # "ok" THEN [err |-> r.err, d |-> d]
        ELSE [err |-> "ok",
              d |-> SetAttr(d, IF side = "query" THEN "_query" ELSE "_hit", r.recs)]

\* SegmentedHSP.__init__(hit_id, query_id, blocks, alphabet), with the same
\* call of HSP.__init__; a non-empty list of blocks is split into the
\* query list and the hit list
SegNew(hit_id, query_id, blocks, alphabet) ==
    LET b == HspInit("SegmentedHSP", hit_id, query_id, alphabet, StrArg(<< >>),
                     DefaultAlphabet)
    IN  IF b.err # "ok" THEN b
        ELSE IF blocks = << >> THEN b
        ELSE LET q == SegSeqSet(b.d, "query", Firsts(blocks))
                 h == SegSeqSet(q.d, "hit", Seconds(blocks))
             IN  IF q.err # "ok" THEN [err |-> q.err, d |-> << >>]
                 ELSE IF h.err # "ok" THEN [err |-> h.err, d |-> << >>]
                 ELSE h

\* an index argument: the integer a, or the slice a:b
IntIdx(i) == [slice |-> FALSE, a |-> i, b |-> 0]
SliceIdx(a, b) == [slice |-> TRUE, a |-> a, b |-> b]

\* (mutant) a slice that takes its end as included
StrGetItem_Inclusive(s, idx) ==
    IF idx.slice THEN [err |-> "ok", seq |-> PySlice(s, idx.a, idx.b + 1)]
    ELSE IF PyIndex(Len(s), idx.a) = 0 THEN [err |-> "IndexError", seq |-> << >>]
    ELSE [err |-> "ok", seq |-> << s[PyIndex(Len(s), idx.a)] >>]

\* str[idx]: one character or a substring; SeqRecord[idx]: one residue as
\* a string, or a SeqRecord over the sub-sequence with the same alphabet
StrGetItem(s, idx) ==
    IF idx.slice THEN [err |-> "ok", seq |-> PySlice(s, idx.a, idx.b)]
    ELSE IF PyIndex(Len(s), idx.a) = 0 THEN [err |-> "IndexError", seq |-> << >>]
    ELSE [err |-> "ok", seq |-> << s[PyIndex(Len(s), idx.a)] >>]
RecGetItem(rec, idx) ==
    LET r == StrGetItem(rec.seq, idx)
    IN  IF r.err # "ok" THEN [err |-> r.err, x |-> OtherArg]
        ELSE IF idx.slice THEN [err |-> "ok", x |-> RecArg(r.seq, rec.alphabet)]
        ELSE [err |-> "ok", x |-> StrArg(r.seq)]

\* ContiguousHSP._alignment_get: MultipleSeqAlignment([self.query,
\* self.hit], self.alphabet), stored in _alignment on the first read; the
\* getter of a sequence that was never set raises AttributeError
ContigAlignmentGet(d) ==
    IF HasAttr(d, "_alignment") THEN [err |-> "ok", ret |-> d["_alignment"], d |-> d]
    ELSE IF ~HasAttr(d, "_query") \/ ~HasAttr(d, "_hit")
    THEN [err |-> "AttributeError", ret |-> << >>, d |-> d]
    ELSE LET al == [records |-> << d["_query"], d["_hit"] >>, alphabet |-> d["alphabet"]]
         IN  [err |-> "ok", ret |-> al, d |-> SetAttr(d, "_alignment", al)]

\* ContiguousHSP.__len__
ContigLen(d) ==
    IF ~HasAttr(d, "_query") \/ ~HasAttr(d, "_hit") THEN [err |-> "TypeError", ret |-> 0]
    ELSE IF Len(d["_query"].seq) # Len(d["_hit"].seq)
    THEN [err |-> "AssertionError", ret |-> 0]
    ELSE [err |-> "ok", ret |-> Len(d["_query"].seq)]

\* the loop of __getitem__ over self.alignment_annotation.items(): each
\* value is cut by idx and its length asserted to be len(obj)
AnnotationCut(ann, idx, obj) ==
    IF \E k \in DOMAIN ann : StrGetItem(ann[k], idx).err # "ok"
    THEN [err |-> "IndexError", ann |-> << >>]
    ELSE IF DOMAIN ann # {} /\ ContigLen(obj).err # "ok"
    THEN [err |-> ContigLen(obj).err, ann |-> << >>]
    ELSE IF \E k \in DOMAIN ann : Len(StrGetItem(ann[k], idx).seq) # ContigLen(obj).ret
    THEN [err |-> "AssertionError", ann |-> << >>]
    ELSE [err |-> "ok", ann |-> [k \in DOMAIN ann |-> StrGetItem(ann[k], idx).seq]]

\* ContiguousHSP.__getitem__(idx): hasattr(self, 'alignment') runs the
\* getter (and so stores _alignment on self); the new object is built by
\* the constructor from the cut sequences, and receives the cut
\* annotations and nothing else
ContigGetItemRes(d, idx) ==
    LET al == ContigAlignmentGet(d)
        h == RecGetItem(al.d["_hit"], idx)
        q == RecGetItem(al.d["_query"], idx)
        n == ContigNew(d["hit_id"], d["query_id"], h.x, q.x, d["alphabet"])
        ann == AnnotationCut(d["alignment_annotation"], idx, n.d)
    IN  IF al.err # "ok" THEN [err |-> "TypeError", d |-> d, obj |-> << >>]
        ELSE IF h.err # "ok" THEN [err |-> h.err, d |-> al.d, obj |-> << >>]
        ELSE IF q.err # "ok" THEN [err |-> q.err, d |-> al.d, obj |-> << >>]
        ELSE IF n.err # "ok" THEN [err |-> n.err, d |-> al.d, obj |-> << >>]
        ELSE IF ~HasAttr(d, "alignment_annotation")
        THEN [err |-> "ok", d |-> al.d, obj |-> n.d]
        ELSE IF ann.err # "ok" THEN [err |-> ann.err, d |-> al.d, obj |-> << >>]
        ELSE [err |-> "ok", d |-> al.d,
              obj |-> SetAttr(n.d, "alignment_annotation", ann.ann)]

\* (mutant) item assignment that stores the value as an annotation
ContigSetItemRes_Stores(d, idx, value) ==
    [err |-> "TypeError", d |-> SetAttr(d, "alignment_annotation", value)]

\* ContiguousHSP.__setitem__, __delitem__, __iter__
ContigSetItemRes(d, idx, value) == [err |-> "TypeError", d |-> d]
ContigDelItemRes(d, idx) == [err |-> "TypeError", d |-> d]
ContigIterRes(d) == [err |-> "TypeError", d |-> d]

\* ContiguousHSP._query_set / ContiguousHSP._hit_set
ContigSeqSet(d, side, x) ==
    LET r == PrepSeq(d, x, IF side = "query" THEN d["query_id"] ELSE d["hit_id"])
    IN  IF r.err # "ok" THEN [err |-> r.err, d |-> d]
        ELSE [err |-> "ok",
              d |-> SetAttr(d, IF side = "query" THEN "_query" ELSE "_hit", r.rec)]

\* the smaller of two numbers
Min(a, b) == IF a < b THEN a ELSE b

\* (mutant) a pairing that goes on to the longer list, repeating the last
\* record of the shorter one
SegAlignmentGet_Longest(d) ==
    IF HasAttr(d, "_alignment") THEN [err |-> "ok", ret |-> d["_alignment"], d |-> d]
    ELSE IF ~HasAttr(d, "_query") \/ ~HasAttr(d, "_hit")
    THEN [err |-> "AttributeError", ret |-> << >>, d |-> d]
    ELSE LET m == Len(d["_query"])
             n == Len(d["_hit"])
             k == IF m = 0 \/ n = 0 THEN 0 ELSE IF m < n THEN n ELSE m
             al == [i \in 1 .. k |->
                      [records |-> << d["_query"][Min(i, m)], d["_hit"][Min(i, n)] >>,
                       alphabet |-> d["alphabet"]]]
         IN  [err |-> "ok", ret |-> al, d |-> SetAttr(d, "_alignment", al)]

\* SegmentedHSP._alignment_get: one MultipleSeqAlignment([query, hit],
\* self.alphabet) for each pair that izip(self.query, self.hit) yields,
\* stored in _alignment on the first read
SegAlignmentGet(d) ==
    IF HasAttr(d, "_alignment") THEN [err |-> "ok", ret |-> d["_alignment"], d |-> d]
    ELSE IF ~HasAttr(d, "_query") \/ ~HasAttr(d, "_hit")
    THEN [err |-> "AttributeError", ret |-> << >>, d |-> d]
    ELSE LET al == [i \in 1 .. Min(Len(d["_query"]), Len(d["_hit"])) |->
                      [records |-> << d["_query"][i], d["_hit"][i] >>,
                       alphabet |-> d["alphabet"]]]
         IN  [err |-> "ok", ret |-> al, d |-> SetAttr(d, "_alignment", al)]

\* SegmentedHSP.__len__ under len(): on AttributeError the method returns
\* a list, which len() refuses with TypeError
SegLen(d) ==
    LET al == SegAlignmentGet(d)
    IN  IF al.err # "ok" THEN [err |-> "TypeError", ret |-> 0, d |-> al.d]
        ELSE [err |-> "ok", ret |-> Len(al.ret), d |-> al.d]

---------------------------------------------------------------------------
(* The ContiguousHSP / SegmentedHSP specification: one HSP object that is
   constructed, given sequences, annotations and attributes, and read *)

\* the arguments the callers pass
MaxSeq == 2
SeqInputs ==
    { StrArg(<< >>), StrArg(<< "A", "C" >>), RecArg(<< "A", "-" >>, "generic_dna"),
      OtherArg }
GoodSeqs == { StrArg(<< "A", "C" >>), RecArg(<< "A", "-" >>, "generic_dna") }
SeqLists == UNION { [1 .. n -> GoodSeqs] : n \in 0 .. MaxSeq }
BlockInputs ==
    { << >>,
      << << StrArg(<< "A", "C" >>), StrArg(<< "A", "-" >>) >> >>,
      << << StrArg(<< "A", "C" >>), RecArg(<< "A", "-" >>, "generic_dna") >>,
         << StrArg(<< "A", "-" >>), StrArg(<< "A", "C" >>) >> >>,
      << << StrArg(<< "A", "C" >>), OtherArg >> >> }
AnnVals == { << "|", "|" >>, << "|" >> }
EvalueVals == { << 1 >>, << 2 >> }
ContigIdx ==
    { IntIdx(i) : i \in (0 - MaxSeq - 1) .. MaxSeq }
    \cup { SliceIdx(a, b) : a \in 0 .. MaxSeq, b \in 0 .. MaxSeq + 1 }

\* the HSP under study is an object of the class
IsA(class) == HasAttr(hspd.d, "class") /\ hspd.d["class"] = class

\* hsp = ContiguousHSP(hit_id, query_id, hit_seq, query_seq, alphabet): the
\* caller studies the new object from now on
ContigConstruct(hit_id, query_id, hit_seq, query_seq, alphabet) ==
    LET r == ContigNew(hit_id, query_id, hit_seq, query_seq, alphabet)
    IN  /\ last.op = "idle"
        /\ hspd' = IF r.err = "ok" THEN [FreshHsp EXCEPT !.d = r.d] ELSE hspd
        /\ Done("ContiguousHSP", alphabet, r.err, << >>)
        /\ UNCHANGED << hsps, hits, qr, q2, appended >>

\* hsp = SegmentedHSP(hit_id, query_id, blocks, alphabet)
SegConstruct(hit_id, query_id, blocks, alphabet) ==
    LET r == SegNew(hit_id, query_id, blocks, alphabet)
    IN  /\ last.op = "idle"
        /\ hspd' = IF r.err = "ok" THEN [FreshHsp EXCEPT !.d = r.d] ELSE hspd
        /\ Done("SegmentedHSP", alphabet, r.err, << >>)
        /\ UNCHANGED << hsps, hits, qr, q2, appended >>

\* hsp[idx] = value, del hsp[idx], iter(hsp) on a ContiguousHSP
ContigSetItem(idx, value) ==
    LET r == ContigSetItemRes(hspd.d, idx, value)
    IN  /\ last.op = "idle"
        /\ IsA("ContiguousHSP")
        /\ hspd' = [hspd EXCEPT !.d = r.d]
        /\ Done("hsp_setitem", None, r.err, << >>)
        /\ UNCHANGED << hsps, hits, qr, q2, appended >>
ContigDelItem(idx) ==
    LET r == ContigDelItemRes(hspd.d, idx)
    IN  /\ last.op = "idle"
        /\ IsA("ContiguousHSP")
        /\ hspd' = [hspd EXCEPT !.d = r.d]
        /\ Done("hsp_delitem", None, r.err, << >>)
        /\ UNCHANGED << hsps, hits, qr, q2, appended >>
ContigIter ==
    LET r == ContigIterRes(hspd.d)
    IN  /\ last.op = "idle"
        /\ IsA("ContiguousHSP")
        /\ hspd' = [hspd EXCEPT !.d = r.d]
        /\ Done("hsp_iter", None, r.err, << >>)
        /\ UNCHANGED << hsps, hits, qr, q2, appended >>

\* hsp[idx] on a ContiguousHSP: the call returns the new object
ContigGetItem(idx) ==
    LET r == ContigGetItemRes(hspd.d, idx)
    IN  /\ last.op = "idle"
        /\ IsA("ContiguousHSP")
        /\ hspd' = [hspd EXCEPT !.d = r.d]
        /\ Done("hsp_getitem", None, r.err, IF r.err = "ok" THEN << r.obj >> ELSE << >>)
        /\ UNCHANGED << hsps, hits, qr, q2, appended >>

\* hsp.query = value / hsp.hit = value on a ContiguousHSP
ContigSeqWrite(side, x) ==
    LET r == ContigSeqSet(hspd.d, side, x)
    IN  /\ last.op = "idle"
        /\ IsA("ContiguousHSP")
        /\ hspd' = [hspd EXCEPT !.d = r.d]
        /\ Done("hsp_seq_write", side, r.err, << >>)
        /\ UNCHANGED << hsps, hits, qr, q2, appended >>

\* hsp.alignment_annotation['homology'] = value
AnnotationWrite(value) ==
    /\ last.op = "idle"
    /\ IsA("ContiguousHSP")
    /\ hspd' = [hspd EXCEPT !.d = SetAttr(@, "alignment_annotation",
                                         SetAttr(@["alignment_annotation"], "homology", value))]
    /\ Done("annotation_write", None, "ok", << >>)
    /\ UNCHANGED << hsps, hits, qr, q2, appended >>

\* hsp.evalue = value: an attribute attached from outside
EvalueWrite(value) ==
    /\ last.op = "idle"
    /\ HasAttr(hspd.d, "class")
    /\ hspd' = [hspd EXCEPT !.d = SetAttr(@, "evalue", value)]
    /\ Done("evalue_write", None, "ok", << >>)
    /\ UNCHANGED << hsps, hits, qr, q2, appended >>

\* hsp.query = value / hsp.hit = value on a SegmentedHSP
SegSeqWrite(side, xs) ==
    LET r == SegSeqSet(hspd.d, side, xs)
    IN  /\ last.op = "idle"
        /\ IsA("SegmentedHSP")
        /\ hspd' = [hspd EXCEPT !.d = r.d]
        /\ Done("seg_seq_write", side, r.err, << >>)
        /\ UNCHANGED << hsps, hits, qr, q2, appended >>

\* hsp.alignment and len(hsp) on a SegmentedHSP
SegAlignmentRead ==
    LET r == SegAlignmentGet(hspd.d)
    IN  /\ last.op = "idle"
        /\ IsA("SegmentedHSP")
        /\ hspd' = [hspd EXCEPT !.d = r.d]
        /\ Done("seg_alignment", None, r.err, Returns(r))
        /\ UNCHANGED << hsps, hits, qr, q2, appended >>
SegLenRead ==
    LET r == SegLen(hspd.d)
    IN  /\ last.op = "idle"
        /\ IsA("SegmentedHSP")
        /\ hspd' = [hspd EXCEPT !.d = r.d]
        /\ Done("seg_len", None, r.err, Returns(r))
        /\ UNCHANGED << hsps, hits, qr, q2, appended >>

NextContig ==
    \/ Return
    \/ \E hid \in {"a", None}, qid \in {"q1", None}, hs \in SeqInputs,
          qs \in SeqInputs, al \in Alphabets : ContigConstruct(hid, qid, hs, qs, al)
    \/ \E idx \in ContigIdx, v \in AnnVals : ContigSetItem(idx, v)
    \/ \E idx \in ContigIdx : ContigDelItem(idx)
    \/ ContigIter
    \/ \E idx \in ContigIdx : ContigGetItem(idx)
    \/ \E side \in Sides, x \in SeqInputs : ContigSeqWrite(side, x)
    \/ \E v \in AnnVals : AnnotationWrite(v)
    \/ \E v \in EvalueVals : EvalueWrite(v)
    \/ HspWrite("ident_num", 1)
SpecContig == InitMetric /\ [][NextContig]_vars

NextSeg ==
    \/ Return
    \/ \E hid \in {"a", None}, qid \in {"q1", None}, bs \in BlockInputs,
          al \in Alphabets : SegConstruct(hid, qid, bs, al)
    \/ \E side \in Sides, xs \in SeqLists : SegSeqWrite(side, xs)
    \/ SegAlignmentRead
    \/ SegLenRead
SpecSeg == InitMetric /\ [][NextSeg]_vars

\* both classes, constructed and given their sequences
NextHspNew ==
    \/ Return
    \/ \E hid \in {"a", None}, qid \in {"q1", None}, hs \in SeqInputs,
          qs \in SeqInputs, al \in Alphabets : ContigConstruct(hid, qid, hs, qs, al)
    \/ \E hid \in {"a", None}, qid \in {"q1", None}, bs \in BlockInputs,
          al \in Alphabets : SegConstruct(hid, qid, bs, al)
    \/ \E side \in Sides, x \in SeqInputs : ContigSeqWrite(side, x)
    \/ \E side \in Sides, xs \in SeqLists : SegSeqWrite(side, xs)
SpecHspNew == InitMetric /\ [][NextHspNew]_vars

---------------------------------------------------------------------------
(* Properties of ContiguousHSP and SegmentedHSP *)

\* C23: on a ContiguousHSP, item assignment, item deletion and iteration
\* raise TypeError for every index and value, and leave the HSP's hit and
\* query sequences, alignment annotations and metric fields (its whole
\* __dict__) as they were
C23_ContiguousIsReadOnly ==
    [][/\ \A idx \in ContigIdx, v \in AnnVals :
            ContigSetItem(idx, v) => last'.outcome = "TypeError" /\ hspd' = hspd
       /\ \A idx \in ContigIdx :
            ContigDelItem(idx) => last'.outcome = "TypeError" /\ hspd' = hspd
       /\ ContigIter => last'.outcome = "TypeError" /\ hspd' = hspd]_vars

\* an item assignment has been refused on a ContiguousHSP that holds both
\* sequences, an annotation, an attached attribute and a metric
C23_Witness ==
    /\ last.op = "hsp_setitem" /\ last.outcome = "TypeError"
    /\ IsA("ContiguousHSP")
    /\ HasAttr(hspd.d, "_query") /\ HasAttr(hspd.d, "_hit")
    /\ HasAttr(hspd.d["alignment_annotation"], "homology")
    /\ HasAttr(hspd.d, "evalue") /\ HasAttr(hspd.d, "_ident_num")

C25_AlphabetIsTheOneGiven ==
    [][/\ \A hid \in {"a", None}, qid \in {"q1", None}, hs \in SeqInputs,
          qs \in SeqInputs, al \in Alphabets :
            ContigConstruct(hid, qid, hs, qs, al) /\ last'.outcome = "ok" =>
               /\ hspd'.d["alphabet"] = al
               /\ qs.type = "str" /\ Truthy(qs) => hspd'.d["_query"].alphabet = al
               /\ hs.type = "str" /\ Truthy(hs) => hspd'.d["_hit"].alphabet = al
       /\ \A hid \in {"a", None}, qid \in {"q1", None}, bs \in BlockInputs,
          al \in Alphabets :
            SegConstruct(hid, qid, bs, al) /\ last'.outcome = "ok" =>
               /\ hspd'.d["alphabet"] = al
               /\ \A i \in 1 .. Len(bs) :
                    /\ bs[i][1].type = "str" => hspd'.d["_query"][i].alphabet = al
                    /\ bs[i][2].type = "str" => hspd'.d["_hit"][i].alphabet = al]_vars

\* what the constructors do with the alphabet: whatever is given, the
\* HSP stores the default, and strings are wrapped with the default
AlphabetIsAlwaysDefault ==
    [][(\/ \E hid \in {"a", None}, qid \in {"q1", None}, hs \in SeqInputs,
             qs \in SeqInputs, al \in Alphabets : ContigConstruct(hid, qid, hs, qs, al)
        \/ \E hid \in {"a", None}, qid \in {"q1", None}, bs \in BlockInputs,
             al \in Alphabets : SegConstruct(hid, qid, bs, al))
       /\ last'.outcome = "ok"
       => hspd'.d["alphabet"] = DefaultAlphabet]_vars

---------------------------------------------------------------------------
(* Further properties of the HSP statistics *)

\* a count that a read obtains: it is set, or the other three are; and
\* the value the read obtains
Known(d, f) == IsSet(d, f) \/ \A g \in CountFields \ {f} : IsSet(d, g)
Obtained(d, f) == IF IsSet(d, f) THEN d[Private[f]] ELSE Expected(d, f)

\* C27: a read of an unset ident_pct (gap_pct) whose count and ali_len can
\* be read or derived returns count / ali_len * 100 and stores it; a read
\* of a percentage that was written returns the written value, whatever
\* the counts are
C27_PercentFromCounts ==
    [][\A f \in DOMAIN CountOf :
         (last'.op = "read" /\ HspRead(f)) =>
            /\ (~IsSet(hspd.d, f) /\ Known(hspd.d, CountOf[f])
                  /\ Known(hspd.d, "ali_len")) =>
                  /\ last'.outcome = "ok"
                  /\ last'.ret = Percent(Obtained(hspd.d, CountOf[f]),
                                         Obtained(hspd.d, "ali_len"))
                  /\ IsSet(hspd'.d, f)
                  /\ hspd'.d[Private[f]] = last'.ret
            /\ Private[f] \in DOMAIN hspd.wrote =>
                  /\ last'.outcome = "ok"
                  /\ last'.ret = hspd.wrote[Private[f]]]_vars

\* what the read does: the same with an ali_len other than 0, and a
\* ZeroDivisionError that stores no percentage with an ali_len of 0
PercentUnlessLengthZero ==
    [][\A f \in DOMAIN CountOf :
         (last'.op = "read" /\ HspRead(f) /\ ~IsSet(hspd.d, f)
            /\ Known(hspd.d, CountOf[f]) /\ Known(hspd.d, "ali_len")) =>
            IF Obtained(hspd.d, "ali_len") = 0
            THEN last'.outcome = "ZeroDivisionError" /\ ~IsSet(hspd'.d, f)
            ELSE /\ last'.outcome = "ok"
                 /\ last'.ret = Percent(Obtained(hspd.d, CountOf[f]),
                                        Obtained(hspd.d, "ali_len"))
                 /\ hspd'.d[Private[f]] = last'.ret]_vars

---------------------------------------------------------------------------
(* Properties of the keys of the QueryResult container *)

\* C29: in every reachable state of a QueryResult, after any sequence of
\* append, assignment by key, deletion, pop, sort and id assignment on
\* contained hits, each key of the ordered mapping equals the key function
\* applied to the hit stored under it (so no two entries hold hits with
\* the same key-function value)
C29_KeysAreKeyFunctionValues ==
    \A i \in 1 .. Len(qr.hits) :
       qr.hits[i].key = HitKeyOf(qr.hkf, hits[qr.hits[i].val])

\* the number of positions of s that hold x
Occurrences(s, x) == Cardinality({ i \in 1 .. Len(s) : s[i] = x })

\* C30: an in-place sort, in any reachable state (also after a hit was
\* assigned under a key other than its key-function value, or after the
\* id of a contained hit was reassigned), raises nothing and leaves the
\* hits a permutation of the hits before the call: the same number of
\* hits, the same Hit objects
C30_InPlaceSortPermutes ==
    [][\A byId \in BOOLEAN, reverse \in BOOLEAN :
         QSortInPlace(byId, reverse) =>
            /\ last'.outcome = "ok"
            /\ Len(qr'.hits) = Len(qr.hits)
            /\ \A h \in DOMAIN hits :
                 Occurrences(HitList(qr'), h) = Occurrences(HitList(qr), h)
            /\ hits' = hits /\ hsps' = hsps]_vars

---------------------------------------------------------------------------
(* Derived constructions on Hits and on the HSPs of a QueryResult *)

\* the generator `(hit.filter(func) for hit in self.hits)` of hsp_filter
\* and `(hit.map(func) for hit in self.hits[:])` of hsp_map under
\* filter(None, ...): from position i on, each Hit yields a new Hit, kept
\* in out, or None, dropped (a new Hit is never empty); arg is
\* [map, useFunc, keep, fn]
RECURSIVE QHspDerived(_, _, _, _, _, _)
QHspDerived(H, P, xs, i, arg, out) ==
    IF i > Len(xs) THEN [err |-> "ok", hits |-> H, out |-> out]
    ELSE LET r == IF arg.map THEN HitMapRes(H[xs[i]], arg.fn, P)
                  ELSE HitFilterRes(H[xs[i]], arg.useFunc, arg.keep, P)
         IN  IF r.err # "ok" THEN [err |-> r.err, hits |-> H, out |-> out]
             ELSE IF r.none THEN QHspDerived(H, P, xs, i + 1, arg, out)
             ELSE QHspDerived(Put(H, CopyNames[i], r.hit), P, xs, i + 1, arg,
                              Append(out, CopyNames[i]))

\* QueryResult.hsp_filter(func) and QueryResult.hsp_map(func)
QHspDeriveRes(q, arg, H, P) ==
    LET m == QHspDerived(H, P, ODValues(q.hits), 1, arg, << >>)
        d == QDerive(q, m.out, m.hits)
    IN  IF m.err # "ok" THEN [err |-> m.err, q |-> NoObj, hits |-> m.hits]
        ELSE [err |-> d.err, q |-> IF d.err = "ok" THEN d.q ELSE NoObj, hits |-> m.hits]
QHspFilterRes(q, useFunc, keep, H, P) ==
    QHspDeriveRes(q, [map |-> FALSE, useFunc |-> useFunc, keep |-> keep, fn |-> None], H, P)
QHspMapRes(q, fn, H, P) ==
    QHspDeriveRes(q, [map |-> TRUE, useFunc |-> FALSE, keep |-> {}, fn |-> fn], H, P)

\* q.hsp_filter(func), q.hsp_map(func)
QHspFilter(useFunc, keep) ==
    LET r == QHspFilterRes(qr, useFunc, keep, hits, hsps)
    IN  /\ last.op = "idle"
        /\ q2' = r.q
        /\ hits' = r.hits
        /\ Done("hsp_filter", None, r.err, << >>)
        /\ UNCHANGED << hsps, qr, appended, hspd >>
QHspMap(fn) ==
    LET r == QHspMapRes(qr, fn, hits, hsps)
    IN  /\ last.op = "idle"
        /\ q2' = r.q
        /\ hits' = r.hits
        /\ Done("hsp_map", fn, r.err, << >>)
        /\ UNCHANGED << hsps, qr, appended, hspd >>

---------------------------------------------------------------------------
\* the Hit that a call on a Hit has returned lives under New
HitDerived(op, h, r, isNone) ==
    /\ last.op = "idle"
    /\ hits' = IF r.err = "ok" /\ ~isNone THEN Put(hits, New, r.hit) ELSE hits
    /\ Done(op, h, r.err, IF r.err = "ok" /\ ~isNone THEN << New >> ELSE << >>)
    /\ UNCHANGED << hsps, qr, q2, appended, hspd >>

\* hit[a:b], reversed(hit), hit.filter(func), hit.map(func),
\* hit.sort(key, reverse, in_place=False) on a Hit of the pool
HitGetSlice(h, a, b) ==
    HitDerived("hit_slice", h, HitGetSliceRes(hits[h], a, b, hsps), FALSE)
HitReversed(h) == HitDerived("hit_reversed", h, HitReversedRes(hits[h], hsps), FALSE)
HitFilter(h, useFunc, keep) ==
    HitDerived("hit_filter_hsps", h, HitFilterRes(hits[h], useFunc, keep, hsps),
               HitFilterRes(hits[h], useFunc, keep, hsps).none)
HitMap(h, fn) ==
    HitDerived("hit_map_hsps", h, HitMapRes(hits[h], fn, hsps),
               HitMapRes(hits[h], fn, hsps).none)
HitSortCopy(h, reverse) ==
    HitDerived("hit_sort_copy", h, HitSortCopyRes(hits[h], reverse, hsps), FALSE)

\* setattr(hit, name, value) for a plain attribute of a Hit of the pool
HitSetAttr(h, name, value) ==
    /\ last.op = "idle"
    /\ hits' = [hits EXCEPT ![h].attrs = SetAttr(@, name, value)]
    /\ Done("hit_setattr", h, "ok", << >>)
    /\ UNCHANGED << hsps, qr, q2, appended, hspd >>

\* the calls that return a derived QueryResult, and those that return a
\* derived Hit
QDerivedOps == {"getitem_slice", "hit_filter", "reversed", "sort_copy", "hit_map",
                "hsp_filter", "hsp_map"}
HitDerivedOps == {"hit_slice", "hit_reversed", "hit_filter_hsps", "hit_map_hsps",
                  "hit_sort_copy"}

\* the caller of a derived construction assigns the id of the QueryResult
\* it received (q2.id = value), or the id or the query_id of the Hit it
\* received, before letting go of it
Q2IdSet(value) ==
    LET r == QIdSetRes(q2, hits, hsps, value)
    IN  /\ last.op \in QDerivedOps /\ last.outcome = "ok"
        /\ q2' = r.q
        /\ hits' = r.hits
        /\ hsps' = r.hsps
        /\ Done("q2_id_set", value, r.err, << >>)
        /\ UNCHANGED << qr, appended, hspd >>
Hit2IdSet(value) ==
    LET r == HitIdSetRes(hits, hsps, New, value)
    IN  /\ last.op \in HitDerivedOps /\ last.outcome = "ok" /\ last.ret = << New >>
        /\ hits' = r.hits
        /\ hsps' = r.hsps
        /\ Done("hit2_id_set", last.arg, r.err, << >>)
        /\ UNCHANGED << qr, q2, appended, hspd >>
Hit2QueryIdSet(value) ==
    LET r == HitQueryIdSetRes(hits, hsps, New, value)
    IN  /\ last.op \in HitDerivedOps /\ last.outcome = "ok" /\ last.ret = << New >>
        /\ hits' = r.hits
        /\ hsps' = r.hsps
        /\ Done("hit2_query_id_set", last.arg, r.err, << >>)
        /\ UNCHANGED << qr, q2, appended, hspd >>

\* the predicates on HSPs given to filter: they keep the HSPs of a set
HspPredicates == { {}, {"p1"}, {"p2", "p3"}, HspRefs }

\* a QueryResult over a pool of two Hits whose caller derives QueryResults
\* and Hits and assigns identifiers on what it received
NextShare ==
    \/ Return
    \/ \E x \in DOMAIN hits : QAppend(x)
    \/ \E k \in HitIds : QDelKey(k)
    \/ \E a \in SliceArgs, b \in SliceArgs : QGetSlice(a, b)
    \/ \E keep \in Predicates : QHitFilter(TRUE, keep)
    \/ QReversed
    \/ \E byId \in BOOLEAN, reverse \in BOOLEAN : QSortCopy(byId, reverse)
    \/ \E v \in QIds : Q2IdSet(v)
    \/ \E h \in RenamePool, a \in SliceArgs, b \in SliceArgs : HitGetSlice(h, a, b)
    \/ \E h \in RenamePool, keep \in HspPredicates : HitFilter(h, TRUE, keep)
    \/ \E h \in RenamePool, reverse \in BOOLEAN : HitSortCopy(h, reverse)
    \/ \E v \in HitIds : Hit2IdSet(v)
    \/ \E v \in QIds : Hit2QueryIdSet(v)
SpecShare == InitNested /\ [][NextShare]_vars

---------------------------------------------------------------------------
(* The derivation specification: a QueryResult, the Hits of its pool and a
   ContiguousHSP, each carrying attributes attached from outside, and the
   objects derived from them *)

\* Hit(id, query_id, hsps) followed by no setattr: no attached attribute
HitWithAttrs(hit) ==
    [id |-> hit.id, query_id |-> hit.query_id, hsps |-> hit.hsps, attrs |-> << >>]

InitDerive ==
    /\ hsps = [p \in HspRefs |->
                 [hit_id |-> PoolIds[PoolOwner[p]], query_id |-> "q1",
                  score |-> PoolScore[p]]]
    /\ hits = [h \in RenamePool |->
                 HitWithAttrs(HitNew(PoolIds[h], "q1", PoolHsps[h], hsps).hit)]
    /\ \E xs \in InitLists :
         /\ \A i \in 1 .. Len(xs) : xs[i] \in DOMAIN hits
         /\ QNew("q1", xs, "id", hits).err = "ok"
         /\ qr = QNew("q1", xs, "id", hits).q
    /\ appended = [on |-> FALSE, set |-> {}]
    /\ q2 = NoObj
    /\ hspd = FreshHsp
    /\ last = Idle

HspMapFns == {None, NotHsp}

NextDerive ==
    \/ Return
    \/ \E x \in DOMAIN hits : QAppend(x)
    \/ \E v \in AttrVals : QSetAttr("seq_len", v)
    \/ \E h \in RenamePool, v \in AttrVals : HitSetAttr(h, "accession", v)
    \/ \E hs \in GoodSeqs :
          ContigConstruct("a", "q1", hs, StrArg(<< "A", "C" >>), DefaultAlphabet)
    \/ EvalueWrite(<< 1 >>)
    \/ \E a \in SliceArgs, b \in SliceArgs : QGetSlice(a, b)
    \/ \E keep \in Predicates : QHitFilter(TRUE, keep)
    \/ \E fn \in MapFns : QHitMap(fn)
    \/ \E keep \in HspPredicates : QHspFilter(TRUE, keep)
    \/ \E fn \in HspMapFns : QHspMap(fn)
    \/ QReversed
    \/ \E byId \in BOOLEAN, reverse \in BOOLEAN : QSortCopy(byId, reverse)
    \/ \E h \in RenamePool, a \in SliceArgs, b \in SliceArgs : HitGetSlice(h, a, b)
    \/ \E h \in RenamePool, keep \in HspPredicates : HitFilter(h, TRUE, keep)
    \/ \E h \in RenamePool, fn \in HspMapFns : HitMap(h, fn)
    \/ \E h \in RenamePool : HitReversed(h)
    \/ \E h \in RenamePool, reverse \in BOOLEAN : HitSortCopy(h, reverse)
    \/ \E idx \in ContigIdx : ContigGetItem(idx)
SpecDerive == InitDerive /\ [][NextDerive]_vars

---------------------------------------------------------------------------
(* Properties of derived containers *)

\* the Hits and the elements that the filters select
KeptHits(q, keep) == SelectSeq(HitList(q), LAMBDA h : h \in keep)
KeptHsps(hit, keep) == SelectSeq(hit.hsps, LAMBDA e : e.ref \in keep)

\* the hits of the derived QueryResult q are new Hits whose element
\* lists are the lists in want, in this order
NewHitsOver(q, H, want) ==
    /\ Len(q.hits) = Len(want)
    /\ \A i \in 1 .. Len(want) :
         /\ q.hits[i].val \notin RenamePool
         /\ H[q.hits[i].val].hsps = want[i]

\* the non-empty element lists among those of the hits of q, each cut by sel
RECURSIVE NonEmpty(_)
NonEmpty(ls) ==
    IF ls = << >> THEN << >>
    ELSE IF Head(ls) = << >> THEN NonEmpty(Tail(ls))
    ELSE << Head(ls) >> \o NonEmpty(Tail(ls))

\* the attributes attached to an HSP from outside
HspAttached(d) == DOMAIN d \cap {"evalue"}

\* a step that derives a QueryResult hands over the attributes and the
\* selected hits
QDerivedCarries ==
    (last'.op \in QDerivedOps /\ last'.outcome = "ok") =>
         /\ q2'.attrs = qr.attrs /\ q2'.id = qr.id
         /\ qr' = qr
         /\ \A h \in RenamePool : hits'[h] = hits[h]
         /\ \A a \in SliceArgs, b \in SliceArgs :
              (last'.op = "getitem_slice" /\ QGetSlice(a, b)) =>
                 HitList(q2') = PySlice(HitList(qr), a, b)
         /\ \A keep \in Predicates :
              (last'.op = "hit_filter" /\ QHitFilter(TRUE, keep)) =>
                 HitList(q2') = KeptHits(qr, keep)
         /\ (last'.op = "reversed" /\ QReversed) =>
                 HitList(q2') = PyReversed(HitList(qr))
         /\ \A byId \in BOOLEAN, reverse \in BOOLEAN :
              (last'.op = "sort_copy" /\ QSortCopy(byId, reverse)) =>
                 HitList(q2') = QSortedHits(qr, byId, reverse, hits)
         /\ \A fn \in MapFns :
              (last'.op = "hit_map" /\ QHitMap(fn)) =>
                 NewHitsOver(q2', hits',
                             [i \in 1 .. Len(qr.hits) |-> hits[HitList(qr)[i]].hsps])
         /\ \A keep \in HspPredicates :
              (last'.op = "hsp_filter" /\ QHspFilter(TRUE, keep)) =>
                 NewHitsOver(q2', hits',
                             NonEmpty([i \in 1 .. Len(qr.hits) |->
                                         KeptHsps(hits[HitList(qr)[i]], keep)]))
         /\ (last'.op = "hsp_map" /\ QHspMap(None)) =>
                 NewHitsOver(q2', hits',
                             NonEmpty([i \in 1 .. Len(qr.hits) |->
                                         hits[HitList(qr)[i]].hsps]))

\* a step that derives a Hit hands over the attributes and the selected
\* elements
HitDerivedCarries ==
    (last'.op \in HitDerivedOps /\ last'.outcome = "ok" /\ last'.ret = << New >>) =>
         LET h == last'.arg
         IN  /\ hits'[New].attrs = hits[h].attrs
             /\ hits'[New].id = hits[h].id
             /\ hits'[New].query_id = hits[h].query_id
             /\ hits'[h] = hits[h]
             /\ \A a \in SliceArgs, b \in SliceArgs :
                  (last'.op = "hit_slice" /\ HitGetSlice(h, a, b)) =>
                     hits'[New].hsps = PySlice(hits[h].hsps, a, b)
             /\ \A keep \in HspPredicates :
                  (last'.op = "hit_filter_hsps" /\ HitFilter(h, TRUE, keep)) =>
                     hits'[New].hsps = KeptHsps(hits[h], keep)
             /\ (last'.op = "hit_map_hsps" /\ HitMap(h, None)) =>
                     hits'[New].hsps = hits[h].hsps
             /\ (last'.op = "hit_reversed" /\ HitReversed(h)) =>
                     hits'[New].hsps = PyReversed(hits[h].hsps)
             /\ \A reverse \in BOOLEAN :
                  (last'.op = "hit_sort_copy" /\ HitSortCopy(h, reverse)) =>
                     hits'[New].hsps = HitSortKeyedRes(hits[h], reverse, hsps).hit.hsps

\* a step that indexes or slices a ContiguousHSP hands over the attributes
\* and the cut sequences
HspDerivedCarries ==
    \A idx \in ContigIdx :
         (last'.op = "hsp_getitem" /\ last'.outcome = "ok" /\ ContigGetItem(idx)) =>
            LET obj == last'.ret[1]
            IN  /\ \A n \in HspAttached(hspd.d) :
                     HasAttr(obj, n) /\ obj[n] = hspd.d[n]
                /\ obj["_query"].seq = StrGetItem(hspd.d["_query"].seq, idx).seq
                /\ obj["_hit"].seq = StrGetItem(hspd.d["_hit"].seq, idx).seq
                /\ hspd'.d["_query"] = hspd.d["_query"]
                /\ hspd'.d["_hit"] = hspd.d["_hit"]

\* C26: every derived construction that returns an object returns one that
\* carries every attribute attached to its source from outside with the
\* same value, while its own items are the items the operation selected
\* and the source keeps its own: for a QueryResult slicing, hit_filter,
\* hit_map, hsp_filter, hsp_map, reversed and sort with in_place false; for
\* a Hit slicing, filter, map, reversed and sort with in_place false; for a
\* ContiguousHSP indexing and slicing
C26_DerivedCarriesAttributes ==
    [][QDerivedCarries /\ HitDerivedCarries /\ HspDerivedCarries]_vars

\* the same for the QueryResult and the Hit alone
ContainersCarryAttributes == [][QDerivedCarries /\ HitDerivedCarries]_vars

\* every hit of q carries q's id; every HSP of the Hit h carries h's ids
HitsMatch(q, H) == \A i \in 1 .. Len(q.hits) : H[q.hits[i].val].query_id = q.id
HspsMatch(h, H, P) ==
    \A e \in 1 .. Len(H[h].hsps) :
       /\ P[H[h].hsps[e].ref].hit_id = H[h].id
       /\ P[H[h].hsps[e].ref].query_id = H[h].query_id

\* C28: after q2 was obtained from the QueryResult q by slicing,
\* hit_filter, reversed or sort with in_place false, assigning q2.id leaves
\* every hit of q with query_id equal to q.id; after hit2 was obtained from
\* the Hit h by slicing, filter or sort with in_place false, assigning
\* hit2.id or hit2.query_id leaves every HSP of h with hit_id equal to h.id
\* and query_id equal to h.query_id
C28_DerivedIdsAreIndependent ==
    [][/\ \A v \in QIds :
            (last.op \in {"getitem_slice", "hit_filter", "reversed", "sort_copy"}
               /\ HitsMatch(qr, hits) /\ Q2IdSet(v)) =>
               qr' = qr /\ HitsMatch(qr', hits')
       /\ \A v \in HitIds \cup QIds :
            (last.op \in {"hit_slice", "hit_filter_hsps", "hit_sort_copy"}
               /\ HspsMatch(last.arg, hits, hsps)
               /\ (Hit2IdSet(v) \/ Hit2QueryIdSet(v))) =>
               /\ hits'[last.arg] = hits[last.arg]
               /\ HspsMatch(last.arg, hits', hsps')]_vars

---------------------------------------------------------------------------
(* Sorting with a comparison key *)

\* the keys a caller of QueryResult.sort passes: key=lambda hit: hit.id and
\* key=bool (Hit.__nonzero__; False sorts before True)
HitSortKeys == {"id", "bool"}
HitKeyVal(key, hit) ==
    IF key = "id" THEN IdRank[hit.id]
    ELSE IF HitNonzero(hit) THEN 1 ELSE 0

\* QueryResult.sort: sorted(self.hits, key=key, reverse=reverse)
QSortedBy(q, key, reverse, H) ==
    LET xs == ODValues(q.hits)
        dec == [i \in 1 .. Len(xs) |->
                   [k |-> IF reverse THEN 0 - HitKeyVal(key, H[xs[i]])
                          ELSE HitKeyVal(key, H[xs[i]]),
                    v |-> xs[i]]]
        srt == PySorted(dec)
    IN  [i \in 1 .. Len(srt) |-> srt[i].v]

\* QueryResult.sort(key, reverse, in_place=True) and (in_place=False)
QSortByInPlaceRes(q, key, reverse, H) ==
    [err |-> "ok",
     q |-> [q EXCEPT !.hits = QRekey(<< >>, QSortedBy(q, key, reverse, H), q.hkf, H)]]
QSortByCopyRes(q, key, reverse, H) == QDerive(q, QSortedBy(q, key, reverse, H), H)

QSortByInPlace(key, reverse) ==
    LET r == QSortByInPlaceRes(qr, key, reverse, hits)
    IN  /\ last.op = "idle"
        /\ qr' = r.q
        /\ Done("sort_by_in_place", key, r.err, << >>)
        /\ UNCHANGED << hsps, hits, q2, appended, hspd >>
QSortByCopy(key, reverse) ==
    LET r == QSortByCopyRes(qr, key, reverse, hits)
    IN  /\ last.op = "idle"
        /\ q2' = IF r.err = "ok" THEN r.q ELSE NoObj
        /\ Done("sort_by_copy", key, r.err, << >>)
        /\ UNCHANGED << hsps, hits, qr, appended, hspd >>

\* a QueryResult over three Hits, of which h1 holds the three HSPs and the
\* others none, whose caller sorts the QueryResult and the Hit with keys
InitSort ==
    /\ hsps = [p \in HspRefs |-> [hit_id |-> "a", query_id |-> "q1", score |-> PoolScore[p]]]
    /\ hits = [h \in HitRefs |->
                 HitNew(PoolIds[h], "q1",
                        IF h = "h1" THEN << "p1", "p2", "p3" >> ELSE << >>, hsps).hit]
    /\ \E hkf \in KeyFns, xs \in InitLists :
         /\ QNew("q1", xs, hkf, hits).err = "ok"
         /\ qr = QNew("q1", xs, hkf, hits).q
    /\ appended = [on |-> FALSE, set |-> {}]
    /\ q2 = NoObj
    /\ hspd = FreshHsp
    /\ last = Idle

NextSort ==
    \/ Return
    \/ \E x \in DOMAIN hits : QAppend(x)
    \/ \E k \in HitIds, x \in DOMAIN hits : QSetItem(k, x)
    \/ \E k \in HitIds : QDelKey(k)
    \/ \E key \in HitSortKeys, reverse \in BOOLEAN : QSortByInPlace(key, reverse)
    \/ \E key \in HitSortKeys, reverse \in BOOLEAN : QSortByCopy(key, reverse)
    \/ HitReverse("h1")
    \/ HitPop("h1", 0)
    \/ \E reverse \in BOOLEAN : HitSortKeyed("h1", reverse)
    \/ \E reverse \in BOOLEAN : HitSortCopy("h1", reverse)
SpecSort == InitSort /\ [][NextSort]_vars

---------------------------------------------------------------------------
(* Properties of sorting with a key *)

\* out holds the elements of in ordered by K, non-decreasing (non-increasing
\* when reverse), the elements of equal K in the order they have in in
IsSortOf(out, in, K(_), reverse) ==
    /\ Len(out) = Len(in)
    /\ \A i \in 1 .. Len(in) : Occurrences(out, in[i]) = Occurrences(in, in[i])
    /\ \A i \in 1 .. Len(out), j \in 1 .. Len(out) :
         i < j => IF reverse THEN K(out[i]) >= K(out[j]) ELSE K(out[i]) <= K(out[j])
    /\ \A i \in 1 .. Len(in) :
         SelectSeq(out, LAMBDA x : K(x) = K(in[i]))
           = SelectSeq(in, LAMBDA x : K(x) = K(in[i]))

\* a step of QueryResult.sort with a key orders the hits
QSortOrders ==
    \A key \in HitSortKeys, reverse \in BOOLEAN :
       /\ (last'.op = "sort_by_in_place" /\ QSortByInPlace(key, reverse)) =>
            /\ last'.outcome = "ok" /\ last'.ret = << >>
            /\ IsSortOf(HitList(qr'), HitList(qr),
                        LAMBDA h : HitKeyVal(key, hits[h]), reverse)
            /\ hits' = hits
       /\ (last'.op = "sort_by_copy" /\ QSortByCopy(key, reverse)) =>
            /\ last'.outcome = "ok"
            /\ IsSortOf(HitList(q2'), HitList(qr),
                        LAMBDA h : HitKeyVal(key, hits[h]), reverse)
            /\ qr' = qr /\ hits' = hits

\* a step of Hit.sort with a key orders the HSPs
HitSortOrders ==
    \A h \in HitRefs, reverse \in BOOLEAN :
       /\ (last'.op = "hit_sort_keyed" /\ HitSortKeyed(h, reverse)) =>
            /\ last'.outcome = "ok" /\ last'.ret = << >>
            /\ IsSortOf(hits'[h].hsps, hits[h].hsps,
                        LAMBDA e : hsps[e.ref].score, reverse)
       /\ (last'.op = "hit_sort_copy" /\ HitSortCopy(h, reverse)) =>
            /\ last'.outcome = "ok" /\ last'.ret = << New >>
            /\ IsSortOf(hits'[New].hsps, hits[h].hsps,
                        LAMBDA e : hsps[e.ref].score, reverse)
            /\ hits'[h] = hits[h]
            /\ hits'[New].id = hits[h].id /\ hits'[New].query_id = hits[h].query_id

\* C31: QueryResult.sort with a comparison key yields the hits as a
\* permutation of the hits before the call, non-decreasing by key
\* (non-increasing when reverse is true), hits of equal key in their
\* original relative order; Hit.sort does the same over the HSPs, in place
\* on the same instance, or with in_place false in a new Hit while the
\* original keeps its order
C31_KeyedSortIsStable == [][QSortOrders /\ HitSortOrders]_vars

\* the same when, before the call, every key of the QueryResult is the key
\* function's value of the hit stored under it
KeyedSortWhenKeysMatch ==
    [][(C29_KeysAreKeyFunctionValues => QSortOrders) /\ HitSortOrders]_vars

\* a key-sorted QueryResult whose hits of equal key were not adjacent, and
\* a key-sorted Hit whose HSPs of equal score were not adjacent
SortWitnessQ ==
    /\ last.op = "sort_by_in_place" /\ last.arg = "bool"
    /\ HitList(qr) = << "h2", "h3", "h1" >>
SortWitnessHit ==
    /\ last.op = "hit_sort_keyed"
    /\ hits["h1"].hsps = << E("p2"), E("p1"), E("p3") >>

---------------------------------------------------------------------------
(* Filtering by HSP *)

\* a QueryResult over the pool's three Hits (h3 holds no HSP) whose caller
\* filters the Hits and the QueryResult with predicates on HSPs
NextHspFilter ==
    \/ Return
    \/ \E x \in DOMAIN hits : QAppend(x)
    \/ \E k \in HitIds, x \in DOMAIN hits : QSetItem(k, x)
    \/ \E k \in HitIds : QDelKey(k)
    \/ \E h \in HitRefs, keep \in HspPredicates : HitFilter(h, TRUE, keep)
    \/ \E keep \in HspPredicates : QHspFilter(TRUE, keep)
SpecHspFilter == Init /\ [][NextHspFilter]_vars

\* a step of Hit.filter(p) returns a new Hit over the HSPs that satisfy p,
\* or nothing when there is none
HitFilterSelects ==
    \A h \in HitRefs, keep \in HspPredicates :
       (last'.op = "hit_filter_hsps" /\ HitFilter(h, TRUE, keep)) =>
          /\ last'.outcome = "ok"
          /\ hits'[h] = hits[h]
          /\ IF KeptHsps(hits[h], keep) = << >>
             THEN last'.ret = << >> /\ hits' = hits
             ELSE /\ last'.ret = << New >>
                  /\ hits'[New].hsps = KeptHsps(hits[h], keep)
                  /\ hits'[New].id = hits[h].id
                  /\ hits'[New].query_id = hits[h].query_id

\* a step of QueryResult.hsp_filter(p) returns a new QueryResult with one
\* filtered Hit for each Hit that has an HSP satisfying p
QHspFilterSelects ==
    \A keep \in HspPredicates :
       (last'.op = "hsp_filter" /\ QHspFilter(TRUE, keep)) =>
          LET src == SelectSeq(HitList(qr),
                               LAMBDA h : KeptHsps(hits[h], keep) # << >>)
              out == HitList(q2')
          IN  /\ last'.outcome = "ok"
              /\ Len(out) = Len(src)
              /\ \A i \in 1 .. Len(src) :
                   /\ out[i] \notin HitRefs
                   /\ hits'[out[i]].hsps = KeptHsps(hits[src[i]], keep)
                   /\ hits'[out[i]].hsps # << >>
                   /\ hits'[out[i]].id = hits[src[i]].id
              /\ q2'.id = qr.id
              /\ qr' = qr
              /\ \A h \in HitRefs : hits'[h] = hits[h]

\* C32: Hit.filter(p) returns a new Hit holding exactly the HSPs that
\* satisfy p, in their original order, or nothing (not an empty Hit) when
\* no HSP satisfies p; QueryResult.hsp_filter(p) returns a new QueryResult
\* holding, in the original order, exactly one filtered hit for each hit
\* of q that has an HSP satisfying p, none of them empty, while q and its
\* hits are unchanged
C32_FilterByHsp == [][HitFilterSelects /\ QHspFilterSelects]_vars

\* the same when, before the call, every key of the QueryResult is the key
\* function's value of the hit stored under it
FilterByHspWhenKeysMatch ==
    [][HitFilterSelects /\ (C29_KeysAreKeyFunctionValues => QHspFilterSelects)]_vars

\* hsp_filter has dropped a Hit and kept a part of another
HspFilterWitness ==
    /\ last.op = "hsp_filter" /\ last.outcome = "ok"
    /\ Len(qr.hits) = 3
    /\ Len(q2.hits) = 1
    /\ hits[q2.hits[1].val].hsps = << E("p2") >>

---------------------------------------------------------------------------
(* Membership *)

\* QueryResult.__contains__(hit_key): a Hit argument is looked up by the
\* key function's value, any other argument as a key
QContainsRes(q, x, H) ==
    [err |-> "ok",
     ret |-> IF IsHit(x) THEN ODHas(q.hits, HitKeyOf(q.hkf, H[x])) ELSE ODHas(q.hits, x)]

\* x in q
QContains(x) ==
    LET r == QContainsRes(qr, x, hits)
    IN  /\ last.op = "idle"
        /\ Done("contains", x, r.err, Returns(r))
        /\ UNCHANGED << hsps, hits, qr, q2, appended, hspd >>

\* a QueryResult with either key function whose caller tests membership
\* and asks for positions
NextMember ==
    \/ Return
    \/ \E x \in DOMAIN hits : QAppend(x)
    \/ \E k \in HitIds, x \in DOMAIN hits : QSetItem(k, x)
    \/ \E k \in HitIds : QDelKey(k)
    \/ \E x \in HitIds \cup DOMAIN hits : QContains(x)
    \/ \E x \in HitIds \cup DOMAIN hits : QIndex(x)
SpecMember == Init /\ [][NextMember]_vars

\* `h in q` and q.index(h), asked of the same q, agree, and q[q.index(h)]
\* is the hit under the key function's value of h
MemberAgrees(h) ==
    LET in == QContainsRes(qr, h, hits).ret
        idx == QIndexRes(qr, h, hits).ret
    IN  /\ ((last'.op = "contains" /\ QContains(h)) => last'.ret = << idx # 0 - 1 >>)
        /\ ((last'.op = "index" /\ QIndex(h)) =>
              /\ in <=> (last'.ret # << 0 - 1 >>)
              /\ in => /\ QGetIntRes(qr, idx).err = "ok"
                       /\ QGetIntRes(qr, idx).ret
                            = ODGet(qr.hits, HitKeyOf(qr.hkf, hits[h])))

\* C33: membership and index agree for Hit arguments under any key
\* function: `h in q` holds exactly when q.index(h) is not -1, and then
\* q[q.index(h)] is the hit stored under key_fn(h)
C33_MembershipAgreesWithIndex == [][\A h \in HitRefs : MemberAgrees(h)]_vars

\* the same for a QueryResult whose key function is the default, the id
MembershipAgreesUnderIdKey ==
    [][qr.hkf = "id" => \A h \in HitRefs : MemberAgrees(h)]_vars

\* index found a Hit that is a member, at the second position
MemberWitness ==
    /\ last.op = "index" /\ last.arg \in HitRefs /\ last.ret = << 1 >>
    /\ qr.hkf = "id"
    /\ Len(qr.hits) = 3

---------------------------------------------------------------------------
(* The relation between the four counts *)

\* every count is stored, and the stored counts satisfy the relation
AllSet(d) == \A f \in CountFields : IsSet(d, f)
AddsUp(d) == d["_ali_len"] = d["_ident_num"] + d["_mismatch_num"] + d["_gap_num"]

\* C34 as stated: in every state with the four counts readable and one of
\* them computed, never written, ali_len = ident_num + mismatch_num +
\* gap_num, also after a write to another count that follows the
\* computation
C34_CountsAlwaysAddUp ==
    (AllSet(hspd.d) /\ \E f \in CountFields : Private[f] \in DOMAIN hspd.got)
       => AddsUp(hspd.d)

\* C34 (amended): a read that computes one of ali_len, ident_num, mismatch_num and
\* gap_num from the other three leaves the four satisfying ali_len =
\* ident_num + mismatch_num + gap_num, and they go on satisfying it
\* through every read; an explicit write to one of the other counts leaves
\* the computed value as it is, so that the relation then holds only if
\* the written value agrees with it
C34_CountsAddUpUntilWritten ==
    [][/\ \A f \in CountFields :
            (last'.op = "read" /\ HspRead(f)) =>
               /\ (~IsSet(hspd.d, f) /\ last'.outcome = "ok") =>
                     AllSet(hspd'.d) /\ AddsUp(hspd'.d)
               /\ (AllSet(hspd.d) /\ AddsUp(hspd.d)) =>
                     AllSet(hspd'.d) /\ AddsUp(hspd'.d)
       /\ \A f \in CountFields, v \in CountVals :
            (last'.op = "write" /\ HspWrite(f, v)) =>
               /\ \A g \in DOMAIN hspd.got \ {Private[f]} :
                    g \in DOMAIN hspd'.got /\ hspd'.d[g] = hspd.d[g]
               /\ (AllSet(hspd.d) /\ AddsUp(hspd.d)) =>
                     (AddsUp(hspd'.d) <=> v = hspd.d[Private[f]])]_vars

\* C34 witness: gap_num was computed next to a mismatch_num other than 0,
\* and the four counts satisfy the relation
C34_Witness ==
    /\ last.op = "read" /\ last.arg = "gap_num" /\ last.outcome = "ok"
    /\ "_gap_num" \in DOMAIN hspd.got
    /\ hspd.d["_mismatch_num"] > 0
    /\ hspd.d["_gap_num"] > 0
    /\ AddsUp(hspd.d)

---------------------------------------------------------------------------
(* The outcomes of reading a percentage *)

\* C35: a read of ident_pct, pos_pct or gap_pct has two outcomes only, a
\* value or the insufficiency error (AttributeError); with ali_len known
\* or derivable and equal to 0 the read fails with no other kind of error
C35_PercentReadOutcomes ==
    (last.op = "read" /\ last.arg \in PctFields) =>
       last.outcome \in {"ok", "AttributeError"}

\* what the read does: its third outcome is ZeroDivisionError, raised with
\* an ali_len of 0 and the percentage left unset
PercentReadThirdOutcome ==
    (last.op = "read" /\ last.arg \in PctFields
       /\ last.outcome \notin {"ok", "AttributeError"}) =>
       /\ last.outcome = "ZeroDivisionError"
       /\ hspd.d["_ali_len"] = 0
       /\ ~IsSet(hspd.d, last.arg)

---------------------------------------------------------------------------
(* Assignment by key *)

\* C36: an accepted q[k] = v for a key k already present replaces the hit
\* stored under k, leaving the length, the position of k and every other
\* entry as they were; only for an absent key does it add an entry, and it
\* adds it at the end
C36_SetItemKeepsPositions ==
    [][\A k \in HitIds, x \in DOMAIN hits :
         (last'.op = "setitem" /\ last'.outcome = "ok" /\ QSetItem(k, x)) =>
            /\ \A j \in 1 .. Len(qr.hits) :
                 qr.hits[j].key = k =>
                    /\ Len(qr'.hits) = Len(qr.hits)
                    /\ qr'.hits[j] = [key |-> k, val |-> x]
                    /\ \A i \in 1 .. Len(qr.hits) : i # j => qr'.hits[i] = qr.hits[i]
            /\ (\A j \in 1 .. Len(qr.hits) : qr.hits[j].key # k) =>
                    qr'.hits = Append(qr.hits, [key |-> k, val |-> x])
            /\ Len(qr'.hits) > Len(qr.hits) =>
                    \A j \in 1 .. Len(qr.hits) : qr.hits[j].key # k]_vars

\* C36 witness: an assignment put a Hit first among three entries, where
\* only the replacement of the hit under a present key can put it
C36_Witness ==
    /\ last.op = "setitem" /\ last.outcome = "ok"
    /\ Len(qr.hits) = 3
    /\ qr.hits[1].val = last.arg
    /\ qr.hits[2].val # last.arg /\ qr.hits[3].val # last.arg
    /\ qr.hits[1].key # HitKeyOf(qr.hkf, hits[last.arg])

---------------------------------------------------------------------------
(* Slicing a ContiguousHSP *)

\* the part of s at the positions a .. b-1 counted from 0, the bounds
\* limited to the length of s
Part(s, a, b) ==
    LET lo == IF a > Len(s) THEN Len(s) ELSE a
        hi == IF b > Len(s) THEN Len(s) ELSE b
    IN  [i \in 1 .. (IF hi > lo THEN hi - lo ELSE 0) |-> s[lo + i]]

\* the HSP holds aligned query and hit sequences of one length, which is
\* the length of each of its annotations too
Aligned(d) ==
    /\ HasAttr(d, "_query") /\ HasAttr(d, "_hit")
    /\ Len(d["_query"].seq) = Len(d["_hit"].seq)
    /\ \A k \in DOMAIN d["alignment_annotation"] :
         Len(d["alignment_annotation"][k]) = Len(d["_query"].seq)

====
